---- MODULE Spec2Model ----
(***************************************************************************)
(* orange-tpot-tooling: the per-owner sync (templates/creator/scripts/     *)
(* sync-posts.ts), its URL normalizer and field extractors, those of its   *)
(* JSON ingest variant, the fleet sweep (templates/index/scripts/          *)
(* sync-all-subrepos.ts) and update-from-template (runUpdate).             *)
(*                                                                         *)
(* Strings are sequences of tokens.  A URL string is a sequence whose      *)
(* tokens are the delimiters "/", "?", "#", the blank " ", an origin       *)
(* (scheme and host, e.g. "https://x.substack.com") and one-character      *)
(* words; two words never stand side by side (a word is a maximal run).    *)
(***************************************************************************)
EXTENDS Integers, Sequences, FiniteSets, TLC

VARIABLES
    \* the normalizer on its own
    nUrl, nBase, nStage, nOut, nOut2, nKind,
    \* the field extractors on their own: an item, the step taken, the result
    xItem, xStage, xOut,
    \* update-from-template on its own: runUpdate's position, the files of the
    \* target directory, the template tarball, the --version argument, the
    \* repo type found, the version fetched, the place in the file list,
    \* filesUpdated, the error thrown, and the paths written so far
    uPc, uDir, uTar, uOverride, uType, uVersion, uIdx, uUpdated, uErr, uWritten,
    \* the world of one owner: creator.json, what each feed URL serves, the
    \* hrefs of the archive page
    creator, feeds, archiveHtml,
    \* the owner's store: posts/<key>.md and metadata/<key>.json
    posts, metadata,
    \* one run of sync-posts.ts main()
    pc, seenUrls, seenFilenames, feedIdx, itemIdx, feedLink, cur,
    postUrls, aIdx, writtenRss, writtenArchive,
    \* runs started and faults injected so far; the links the feed phase of
    \* this run has been handed
    runs, faults, delivered,
    \* the feeds this run has fetched; the exit status of the latest run
    fetched, exitStatus,
    \* the fleet: the command line, the entries of subrepos/, sync-failures.txt
    argv, entries, manifest,
    \* one sweep of sync-all-subrepos.ts main()
    sPc, delaySec, retries, toSync, round, queue, failed, ok, attempts,
    \* the child processes that run, the result of the latest, the attempts
    \* the sweep has reported on its console, and the sweeps started
    running, last, log, sweeps,
    \* the sleeps of the sweep that have ended
    slept

normVars == <<nUrl, nBase, nStage, nOut, nOut2, nKind>>
extractVars == <<xItem, xStage, xOut>>
updateVars == <<uPc, uDir, uTar, uOverride, uType, uVersion, uIdx, uUpdated, uErr, uWritten>>
aloneVars == <<normVars, extractVars, updateVars>>
worldVars == <<creator, feeds, archiveHtml>>
diskVars == <<posts, metadata>>
runVars == <<pc, seenUrls, seenFilenames, feedIdx, itemIdx, feedLink, cur,
             postUrls, aIdx, writtenRss, writtenArchive>>
syncVars == <<worldVars, diskVars, runVars, runs, faults, delivered, fetched, exitStatus>>

fleetVars == <<argv, entries, manifest>>
sweepVars == <<sPc, delaySec, retries, toSync, round, queue, failed, ok, attempts,
               running, last, log, sweeps, slept>>

notSync == <<aloneVars, fleetVars, sweepVars>>

vars == <<aloneVars, syncVars, fleetVars, sweepVars>>

(***************************************************************************)
(* Bounds                                                                  *)
(***************************************************************************)
MaxLen == 4
MaxItems == 2
MaxRuns == 2
MaxFaults == 1
MaxTargets == 3
MaxRetries == 3
MaxSweeps == 2

(***************************************************************************)
(* Strings                                                                 *)
(***************************************************************************)
Origin == "https://x.substack.com"
OtherOrigin == "https://blog.example"
DefaultOrigin == "https://example.com"
BadOrigin == "https://["
HostOrigin(w) == "https://" \o w

Origins == {Origin, OtherOrigin, DefaultOrigin} \cup {HostOrigin(w) : w \in {"a", "b", "c", "p"}}

IsBlank(c) == c = " "

RECURSIVE TrimLeft(_)
TrimLeft(s) == IF s # <<>> /\ IsBlank(Head(s)) THEN TrimLeft(Tail(s)) ELSE s

RECURSIVE TrimRight(_)
TrimRight(s) ==
    IF s # <<>> /\ IsBlank(s[Len(s)]) THEN TrimRight(SubSeq(s, 1, Len(s) - 1)) ELSE s

\* String.prototype.trim
Trim(s) == TrimRight(TrimLeft(s))

SeqUpTo(S, n) == UNION {[1..k -> S] : k \in 0..n}

\* the first position of s holding a token of set D, or Len(s) + 1
RECURSIVE FirstOf(_, _, _)
FirstOf(s, D, i) ==
    IF i > Len(s) THEN Len(s) + 1
    ELSE IF s[i] \in D THEN i ELSE FirstOf(s, D, i + 1)

\* the last position of s holding token c, or 0
RECURSIVE LastIndexOf(_, _, _)
LastIndexOf(s, c, i) ==
    IF i = 0 THEN 0 ELSE IF s[i] = c THEN i ELSE LastIndexOf(s, c, i - 1)

(***************************************************************************)
(* WHATWG URL, as far as normalizePostUrl uses it (new URL, the hash,      *)
(* search and pathname setters, toString)                                  *)
(***************************************************************************)
Words == {"a", "b", "c", "p", "%20", "comments", "archive", "feed"}
Delims == {"/", "?", "#"}

NoUrl == [ok |-> FALSE, origin |-> "", path |-> <<>>, hasQuery |-> FALSE,
          query |-> <<>>, hasFrag |-> FALSE, frag |-> <<>>]

\* a blank inside a path, query or fragment is percent-encoded
Encode(s) == [i \in DOMAIN s |-> IF IsBlank(s[i]) THEN "%20" ELSE s[i]]

\* path, query and fragment states: rest is empty or begins with a delimiter
ParseRest(origin, rest) ==
    LET pEnd == FirstOf(rest, {"?", "#"}, 1)
        path == SubSeq(rest, 1, pEnd - 1)
        after == SubSeq(rest, pEnd, Len(rest))
        hasQ == after # <<>> /\ after[1] = "?"
        qEnd == FirstOf(after, {"#"}, 1)
    IN  [ok |-> TRUE,
         origin |-> origin,
         path |-> IF path = <<>> THEN <<"/">> ELSE Encode(path),
         hasQuery |-> hasQ,
         query |-> IF hasQ THEN Encode(SubSeq(after, 2, qEnd - 1)) ELSE <<>>,
         hasFrag |-> qEnd <= Len(after),
         frag |-> Encode(SubSeq(after, qEnd + 1, Len(after)))]

\* an absolute URL string: scheme and host, then path, query, fragment.
\* A host that runs into a blank is invalid (the strings of this model never
\* put a word right after the origin token).
ParseAbs(t) ==
    IF t = <<>> \/ Head(t) \notin Origins THEN NoUrl
    ELSE IF Tail(t) # <<>> /\ t[2] \notin Delims THEN NoUrl
    ELSE ParseRest(Head(t), Tail(t))

\* the directory of a path: up to and including its last "/"
Dir(p) == SubSeq(p, 1, LastIndexOf(p, "/", Len(p)))

\* "//host...": special authority ignore slashes state, then the host state
ParseAuthority(t) ==
    LET k == FirstOf(t, Words \cup {"?", "#", " "}, 1)
        hEnd == FirstOf(t, Delims, k)
        host == SubSeq(t, k, hEnd - 1)
    IN  IF Len(host) = 1 /\ host[1] \in Words \ {"%20"}
        THEN ParseRest(HostOrigin(host[1]), SubSeq(t, hEnd, Len(t)))
        ELSE NoUrl

\* the basic URL parser on a trimmed string t with parsed base B
ParseRelative(t, B) ==
    IF t = <<>> THEN [B EXCEPT !.hasFrag = FALSE, !.frag = <<>>]
    ELSE IF Head(t) = "/" THEN
        IF Len(t) >= 2 /\ t[2] = "/" THEN ParseAuthority(t)
        ELSE ParseRest(B.origin, t)
    ELSE IF Head(t) = "?" THEN ParseRest(B.origin, B.path \o t)
    ELSE IF Head(t) = "#" THEN
        ParseRest(B.origin,
                  B.path \o (IF B.hasQuery THEN <<"?">> \o B.query ELSE <<>>) \o t)
    ELSE ParseRest(B.origin, Dir(B.path) \o t)

\* new URL(input, base): NoUrl stands for the TypeError it throws
NewURL(input, base) ==
    LET t == Trim(input)
        B == ParseAbs(Trim(base))
    IN  IF ~B.ok THEN NoUrl
        ELSE IF t # <<>> /\ Head(t) = BadOrigin THEN NoUrl
        ELSE IF t # <<>> /\ Head(t) \in Origins THEN ParseAbs(t)
        ELSE ParseRelative(t, B)

\* URL.prototype.toString
Serialize(u) ==
    <<u.origin>> \o u.path
        \o (IF u.hasQuery THEN <<"?">> \o u.query ELSE <<>>)
        \o (IF u.hasFrag THEN <<"#">> \o u.frag ELSE <<>>)

\* the pathname left as it is
StripTrailingSlash_Keep(p) == p

\* path.replace(/\/$/, ""): one trailing slash less
StripTrailingSlash(p) ==
    IF p # <<>> /\ p[Len(p)] = "/" THEN SubSeq(p, 1, Len(p) - 1) ELSE p

\* the search getter is "" for a null or empty query; assigning "" makes the
\* query null, assigning "?q" keeps q
KeepSearch(u) ==
    IF u.hasQuery /\ u.query # <<>> THEN u
    ELSE [u EXCEPT !.hasQuery = FALSE, !.query = <<>>]

normalizePostUrl(url, base) ==
    LET u == NewURL(url, IF base = <<>> THEN <<DefaultOrigin>> ELSE base)
    IN  IF ~u.ok THEN Trim(url)
        ELSE LET u1 == [u EXCEPT !.hasFrag = FALSE, !.frag = <<>>]
                 u2 == KeepSearch(u1)
                 stripped == StripTrailingSlash(u2.path)
                 path == IF stripped = <<>> THEN <<"/">> ELSE stripped
             IN  Serialize([u2 EXCEPT !.path = path])

(***************************************************************************)
(* sync-posts.ts: helpers.  Titles, slugs and storage keys are sequences   *)
(* of characters; a date string is one token.                              *)
(***************************************************************************)
Undefined == "undefined"
Null == "null"
\* an absent string-valued field
Absent == <<"undefined">>

\* JavaScript truthiness of an optional string
Truthy(x) == x # Absent /\ x # <<>>
TruthyStr(x) == x # Undefined /\ x # Null /\ x # ""

SlugMaxLen == 80

Lower(c) == CASE c = "H" -> "h" [] c = "U" -> "u" [] OTHER -> c

\* the characters [a-z0-9] of this model
SlugChars == {"a", "b", "c", "d", "e", "h", "i", "l", "n", "o", "p", "s", "t", "u",
              "0", "1", "2", "3", "4", "5", "6", "7", "8", "9", "comments"}

\* replace(/\s+/g, "-")
RECURSIVE BlanksToDash(_)
BlanksToDash(s) ==
    IF s = <<>> THEN <<>>
    ELSE IF IsBlank(Head(s)) THEN <<"-">> \o BlanksToDash(TrimLeft(s))
    ELSE <<Head(s)>> \o BlanksToDash(Tail(s))

\* replace(/-+/g, "-")
RECURSIVE CollapseDashes(_)
CollapseDashes(s) ==
    IF Len(s) < 2 THEN s
    ELSE IF s[1] = "-" /\ s[2] = "-" THEN CollapseDashes(Tail(s))
    ELSE <<Head(s)>> \o CollapseDashes(Tail(s))

\* replace(/^-|-$/g, "")
StripEdgeDashes(s) ==
    LET a == IF s # <<>> /\ Head(s) = "-" THEN Tail(s) ELSE s
    IN  IF a # <<>> /\ a[Len(a)] = "-" THEN SubSeq(a, 1, Len(a) - 1) ELSE a

IsSlugChar(c) == c \in SlugChars \cup {"-"}

slugify(title) ==
    LET lowered == [i \in DOMAIN Trim(title) |-> Lower(Trim(title)[i])]
        dashed == BlanksToDash(lowered)
        kept == SelectSeq(dashed, IsSlugChar)
        stripped == StripEdgeDashes(CollapseDashes(kept))
        sliced == SubSeq(stripped, 1, IF Len(stripped) < SlugMaxLen THEN Len(stripped) ELSE SlugMaxLen)
    IN  IF sliced = <<>> THEN <<"p", "o", "s", "t">> ELSE sliced

\* new Date(raw): the date strings that parse, with the ISO day and time they give
NaN == [valid |-> FALSE, day |-> "", time |-> ""]
DateOf(raw) ==
    CASE raw = "Mon, 01 Jan 2024 10:00:00 GMT" ->
            [valid |-> TRUE, day |-> "2024-01-01", time |-> "T10:00:00.000Z"]
      [] raw = "2024-03-05" ->
            [valid |-> TRUE, day |-> "2024-03-05", time |-> "T00:00:00.000Z"]
      [] OTHER -> NaN

toISOString(d) == <<d.day, d.time>>

\* toISOString().slice(0, 10)
formatDate(d) == toISOString(d)[1]

\* a ?? b
Coalesce(a, b) == IF a # Undefined /\ a # Null THEN a ELSE b

\* no invalid-date guard: a date that does not parse comes out as the epoch
getItemPubDate_NoGuard(item) ==
    LET raw == Coalesce(item.pubDate, item.updated)
    IN  IF ~TruthyStr(raw) THEN NaN
        ELSE IF DateOf(raw).valid THEN DateOf(raw)
        ELSE [valid |-> TRUE, day |-> "1970-01-01", time |-> "T00:00:00.000Z"]

getItemPubDate(item) ==
    LET raw == Coalesce(item.pubDate, item.updated)
    IN  IF ~TruthyStr(raw) THEN NaN ELSE DateOf(raw)

getItemContent(item) ==
    LET raw == Coalesce(item.content, Coalesce(item.contentEncoded,
                 Coalesce(item.contentSnippet, Coalesce(item.summary, item.description))))
    IN  IF TruthyStr(raw) THEN raw ELSE "See link for full content."

(***************************************************************************)
(* The JSON ingest variant of the sync script: its field extractors.  A    *)
(* body is one token; " " is the body that is only white space.            *)
(***************************************************************************)
FallbackBody == "See link for full content."

\* String.prototype.trim on a body
TrimBody(s) == IF s = " " THEN "" ELSE s

getPostContent(post) ==
    LET raw == Coalesce(post.content, Coalesce(post.body, post.description))
        str == IF raw # Undefined /\ raw # Null THEN raw ELSE ""
    IN  IF TrimBody(str) # "" THEN TrimBody(str) ELSE FallbackBody

\* raw == null covers null and undefined; new Date("") is invalid
parsePostDate(raw) ==
    IF raw = Undefined \/ raw = Null THEN NaN ELSE DateOf(raw)

\* the argument main() hands to parsePostDate
PostDateRaw(post) ==
    Coalesce(post.published, Coalesce(post.pub_date, Coalesce(post.published_at, post.date)))

\* an item none of whose fields is there, and the extractors not in use
BlankItem ==
    [content |-> Undefined, contentEncoded |-> Undefined, contentSnippet |-> Undefined,
     summary |-> Undefined, description |-> Undefined, body |-> Undefined,
     pubDate |-> Undefined, updated |-> Undefined, published |-> Undefined,
     pub_date |-> Undefined, published_at |-> Undefined, date |-> Undefined]

NoOut == [body |-> "", date |-> NaN]

ExtractOff ==
    /\ xItem = BlankItem
    /\ xStage = "off"
    /\ xOut = NoOut

(***************************************************************************)
(* update-from-template: paths are sequences of segments, a directory is a *)
(* function from the paths of its files to their contents.                 *)
(***************************************************************************)
CREATOR_TEMPLATE_FILES ==
    << <<".github", "workflows", "sync-posts.yml">>,
       <<".github", "workflows", "update-from-template.yml">>,
       <<".gitignore">>,
       <<".orange-tpot-version">>,
       <<"package.json">>,
       <<"README.md">>,
       <<"SYNC_FULL.md">>,
       <<"scripts", "sync-posts.ts">>,
       <<"qmd", "README.md">> >>

INDEX_TEMPLATE_FILES ==
    << <<".github", "workflows", "update-subrepos.yml">>,
       <<".github", "workflows", "update-from-template.yml">>,
       <<".orange-tpot-version">>,
       <<"package.json">>,
       <<"README.md">>,
       <<"scripts", "update-manifest.ts">>,
       <<"scripts", "sync-all-subrepos.ts">> >>

VersionFile == <<".orange-tpot-version">>
CreatorJson == <<"creator.json">>
ReposJson == <<"creators", "repos.json">>
ManifestJson == <<"creators", "manifest.json">>

EmptyDir == [p \in {} |-> ""]

\* any directory is taken for a creator repo
detectRepoType_Lenient(dir) ==
    IF ReposJson \in DOMAIN dir /\ CreatorJson \notin DOMAIN dir THEN "index" ELSE "creator"

detectRepoType(dir) ==
    IF CreatorJson \in DOMAIN dir THEN "creator"
    ELSE IF ReposJson \in DOMAIN dir THEN "index"
    ELSE Null

FileList(type) == IF type = "creator" THEN CREATOR_TEMPLATE_FILES ELSE INDEX_TEMPLATE_FILES

\* versionOverride?.trim() && versionOverride !== "latest"
UseOverride(v) == v # Undefined /\ TrimBody(v) # "" /\ v # "latest"

\* replace(/^v/, "")
StripV(v) ==
    CASE v = "v1.2.0" -> "1.2.0"
      [] v = "v1.3.0" -> "1.3.0"
      [] OTHER -> v

\* an entry of the extracted tarball: no such path, a file, or a directory
\* holding files
NoEntry == [kind |-> "missing", content |-> "", children |-> {}]
FileEntry(c) == [kind |-> "file", content |-> c, children |-> {}]
DirEntry(c, names) == [kind |-> "dir", content |-> c, children |-> names]

\* the files copyRecursive(src, dest) writes
CopyTargets(e, dest) ==
    IF e.kind = "dir" THEN {dest \o <<c>> : c \in e.children} ELSE {dest}

copyRecursive(e, dest, dir) ==
    [p \in DOMAIN dir \cup CopyTargets(e, dest) |->
        IF p \in CopyTargets(e, dest) THEN e.content ELSE dir[p]]

NoTar == [creator |-> <<>>, index |-> <<>>]

UpdateOff ==
    /\ uPc = "off"
    /\ uDir = EmptyDir
    /\ uTar = NoTar
    /\ uOverride = Undefined
    /\ uType = Null
    /\ uVersion = ""
    /\ uIdx = 0
    /\ uUpdated = 0
    /\ uErr = ""
    /\ uWritten = {}

\* `${n}`
RECURSIVE Digits(_)
Digits(n) == IF n < 10 THEN <<ToString(n)>> ELSE Digits(n \div 10) \o <<ToString(n % 10)>>

Suffixed(baseName, n) == baseName \o <<"-">> \o Digits(n)

\* while (seenFilenames.has(`${baseName}-${n}`)) n++
RECURSIVE FirstFree(_, _, _)
FirstFree(baseName, seen, n) ==
    IF Suffixed(baseName, n) \in seen THEN FirstFree(baseName, seen, n + 1) ELSE n

\* the date_slug key taken whether or not it is in use
AllocateKey_NoSuffix(baseName, seen) == baseName

\* the storage key of an accepted post
AllocateKey(baseName, seen) ==
    IF baseName \in seen THEN Suffixed(baseName, FirstFree(baseName, seen, 1))
    ELSE baseName

\* `${dateStr}_${slug}`
BaseName(dateStr, slug) == <<dateStr, "_">> \o slug

Range(f) == {f[i] : i \in DOMAIN f}

AppendNew(seq, x) == IF x \in Range(seq) THEN seq ELSE Append(seq, x)

\* the tokens of s from position i up to the next token of set D
RunFrom(s, i, D) == SubSeq(s, i, FirstOf(s, D, i) - 1)

\* "/p/" followed by at least one more character, at position i of s
PostPathAt(s, i) ==
    /\ i + 3 <= Len(s)
    /\ s[i] = "/" /\ s[i + 1] = "p" /\ s[i + 2] = "/"

\* pass 1: an href holding "/p/": resolve it, keep it when its path is
\* /p/<slug> or /p/<slug>/, and cut it down to origin/p/<slug>
HrefPostUrl(raw, base) ==
    LET u == NewURL(raw, base)
        slug == RunFrom(u.path, 4, {"/"})
    IN  IF /\ \E i \in DOMAIN raw : PostPathAt(raw, i)
           /\ u.ok
           /\ Len(u.path) >= 4 /\ PostPathAt(u.path, 1) /\ u.path[4] # "/"
           /\ 3 + Len(slug) \in {Len(u.path), Len(u.path) - 1}
        THEN <<<<u.origin, "/", "p", "/">> \o slug>>
        ELSE <<>>

\* pass 2: every /p/<slug> of the text, <slug> running up to a slash or a blank
RECURSIVE SlugMatches(_, _, _)
SlugMatches(s, i, origin) ==
    IF i > Len(s) THEN <<>>
    ELSE IF PostPathAt(s, i) /\ s[i + 3] \notin {"/", " "} THEN
        LET slug == RunFrom(s, i + 3, {"/", " "})
            rest == SlugMatches(s, i + 3 + Len(slug), origin)
        IN  IF slug = <<"comments">> THEN rest
            ELSE <<<<origin, "/", "p", "/">> \o slug>> \o rest
    ELSE SlugMatches(s, i + 1, origin)

RECURSIVE AppendAllNew(_, _)
AppendAllNew(seq, xs) ==
    IF xs = <<>> THEN seq ELSE AppendAllNew(AppendNew(seq, Head(xs)), Tail(xs))

RECURSIVE Pass1(_, _, _)
Pass1(html, base, acc) ==
    IF html = <<>> THEN acc
    ELSE Pass1(Tail(html), base, AppendAllNew(acc, HrefPostUrl(Head(html), base)))

RECURSIVE Pass2(_, _, _)
Pass2(html, origin, acc) ==
    IF html = <<>> THEN acc
    ELSE Pass2(Tail(html), origin, AppendAllNew(acc, SlugMatches(Head(html), 1, origin)))

\* html is the sequence of the page's href values
extractSubstackPostUrls(html, archiveBaseUrl) ==
    LET base == StripTrailingSlash(archiveBaseUrl)
        origin == ParseAbs(base).origin
    IN  Pass2(html, origin, Pass1(html, base, <<>>))

\* the first /p/<slug> of a path
RECURSIVE FirstPostSlug(_, _)
FirstPostSlug(path, i) ==
    IF i > Len(path) THEN <<>>
    ELSE IF PostPathAt(path, i) /\ path[i + 3] # "/" THEN RunFrom(path, i + 3, {"/"})
    ELSE FirstPostSlug(path, i + 1)

slugFromSubstackPath(url) ==
    LET u == ParseAbs(Trim(url))
        m == IF u.ok THEN FirstPostSlug(u.path, 1) ELSE <<>>
    IN  IF m # <<>> THEN slugify(m) ELSE slugify(url)

\* blogUrl.includes("substack.com")
IsSubstack(blogUrl) == \E i \in DOMAIN blogUrl : blogUrl[i] = Origin

(***************************************************************************)
(* The world of one owner                                                  *)
(***************************************************************************)
FeedUrls == <<<<Origin, "/", "feed">>, <<OtherOrigin, "/", "feed">>>>

\* creator.json: a hosted-newsletter owner (archive supplement by default)
\* and a plain blog
SubstackCreator ==
    [errno |-> "", blogUrl |-> <<Origin>>, feedUrls |-> FeedUrls, supplementStrategy |-> Undefined]

BlogCreator ==
    [errno |-> "", blogUrl |-> <<OtherOrigin>>, feedUrls |-> FeedUrls,
     supplementStrategy |-> Undefined]

Creators == {SubstackCreator, BlogCreator}

\* a creator.json that names no feed, and no creator.json at all
NoFeedsCreator ==
    [errno |-> "", blogUrl |-> <<Origin>>, feedUrls |-> <<>>, supplementStrategy |-> Undefined]

NoCreator ==
    [errno |-> "ENOENT", blogUrl |-> <<>>, feedUrls |-> <<>>, supplementStrategy |-> Undefined]

Hello == <<"H", "e", "l", "l", "o">>
PostA == <<Origin, "/", "p", "/", "a">>
PostB == <<Origin, "/", "p", "/", "b">>
GoodDate == "Mon, 01 Jan 2024 10:00:00 GMT"

Item(link, title, pubDate, content) ==
    [link |-> link, guid |-> Absent, title |-> title, pubDate |-> pubDate,
     updated |-> Undefined, content |-> content, contentEncoded |-> Undefined,
     contentSnippet |-> Undefined, summary |-> Undefined, description |-> Undefined]

\* the items a feed may serve
ItemPool ==
    {Item(PostA, Hello, GoodDate, "full text"),
     \* the same post, linked relative to the feed and with a trailing slash
     Item(<<"/", "p", "/", "a", "/">>, Hello, GoodDate, "full text"),
     \* another post with the same date and title
     Item(PostB, Hello, GoodDate, Undefined),
     \* a link ending in two slashes, no title, a date that does not parse
     Item(<<Origin, "/", "p", "/", "c", "/", "/">>, Absent, "not-a-date", ""),
     \* no link and no guid
     Item(Absent, Hello, GoodDate, "full text")}

\* the href values an archive page may hold
HrefPool ==
    {<<"/", "p", "/", "a">>,
     <<Origin, "/", "p", "/", "c", "/", "comments">>}

Feeds == [link : {<<Origin, "/">>}, items : SeqUpTo(ItemPool, MaxItems), errno : {""}]

\* a feed URL whose host cannot be reached
DownFeed == [link |-> <<>>, items |-> <<>>, errno |-> "ECONNREFUSED"]

\* what the feed URLs and the archive page serve: MaxItems items and hrefs in all
Worlds ==
    {w \in [feeds : [1..Len(FeedUrls) -> Feeds], html : SeqUpTo(HrefPool, MaxItems)] :
        Len(w.feeds[1].items) + Len(w.feeds[2].items) + Len(w.html) <= MaxItems}

NoCur == [base |-> <<>>, baseName |-> <<>>, link |-> <<>>, md |-> <<>>, meta |-> <<>>]

\* no run in progress: nothing in memory
Idle ==
    /\ pc = "idle"
    /\ seenUrls = {}
    /\ seenFilenames = {}
    /\ feedIdx = 0
    /\ itemIdx = 0
    /\ feedLink = <<>>
    /\ cur = NoCur
    /\ postUrls = <<>>
    /\ aIdx = 0
    /\ writtenRss = 0
    /\ writtenArchive = 0
    /\ delivered = {}
    /\ fetched = {}

NoFile == <<"ENOENT">>

\* no child process has returned yet
NoResult == [slug |-> "", status |-> 0, stdout |-> "", stderr |-> ""]

SweepOff ==
    /\ argv = <<>>
    /\ entries = <<>>
    /\ manifest = NoFile
    /\ sPc = "off"
    /\ delaySec = 0
    /\ retries = 0
    /\ toSync = <<>>
    /\ round = 0
    /\ queue = <<>>
    /\ failed = <<>>
    /\ ok = 0
    /\ attempts = <<>>
    /\ running = {}
    /\ last = NoResult
    /\ log = <<>>
    /\ sweeps = 0
    /\ slept = 0

NormIdle ==
    /\ nUrl = <<>>
    /\ nBase = <<>>
    /\ nStage = "off"
    /\ nOut = <<>>
    /\ nOut2 = <<>>
    /\ nKind = "none"
    /\ ExtractOff
    /\ UpdateOff

SyncOff ==
    /\ creator = NoCreator
    /\ feeds = <<>>
    /\ archiveHtml = <<>>
    /\ posts = <<>>
    /\ metadata = <<>>
    /\ runs = 0
    /\ faults = 0
    /\ exitStatus = <<>>
    /\ pc = "off"
    /\ seenUrls = {}
    /\ seenFilenames = {}
    /\ feedIdx = 0
    /\ itemIdx = 0
    /\ feedLink = <<>>
    /\ cur = NoCur
    /\ postUrls = <<>>
    /\ aIdx = 0
    /\ writtenRss = 0
    /\ writtenArchive = 0
    /\ delivered = {}
    /\ fetched = {}

\* an empty store; the feeds and the archive page are fixed for the behaviour
Init ==
    /\ NormIdle
    /\ SweepOff
    /\ \/ /\ creator \in Creators
          /\ \E w \in Worlds :
                /\ IsSubstack(creator.blogUrl) \/ w.html = <<>>
                /\ feeds = w.feeds
                /\ archiveHtml = w.html
       \/ /\ creator \in {NoFeedsCreator, NoCreator}
          /\ \E w \in Worlds :
                /\ feeds = w.feeds
                /\ archiveHtml = <<>>
    /\ posts = <<>>
    /\ metadata = <<>>
    /\ runs = 0
    /\ faults = 0
    /\ exitStatus = <<>>
    /\ Idle

(***************************************************************************)
(* The normalizer on its own: an input string and a base are drawn, then   *)
(* normalized, and the result is normalized again (as the hydration of     *)
(* the DedupIndex does), or a variant of the input is normalized.          *)
(***************************************************************************)
InputAlphabet == {"/", "?", "#", " ", "a", Origin, BadOrigin}

\* a tokenized string: an origin only in front (after blanks at most), then a
\* delimiter or the end; a word is a maximal run, so no two words are adjacent
WellFormed(s) ==
    \A i \in DOMAIN s :
        /\ s[i] \in {Origin, BadOrigin} => \A j \in 1..(i - 1) : IsBlank(s[j])
        /\ (i > 1 /\ s[i] \in Words) => s[i - 1] \notin Words \cup {Origin, BadOrigin}

UrlInputs == {s \in SeqUpTo(InputAlphabet, MaxLen) : WellFormed(s)}

ValidBase == <<Origin, "/", "b", "/", "c">>
InvalidBase == <<"b">>
Bases == {<<>>, ValidBase, InvalidBase}

Variant(url, kind) ==
    CASE kind = "slash" -> url \o <<"/">>
      [] kind = "frag" -> url \o <<"#", "a">>
      [] kind = "query" -> url \o <<"?", "a">>

InitNorm ==
    /\ nUrl \in UrlInputs
    /\ nBase \in Bases
    /\ nStage = "input"
    /\ nOut = <<>>
    /\ nOut2 = <<>>
    /\ nKind = "none"
    /\ ExtractOff
    /\ UpdateOff
    /\ SyncOff
    /\ SweepOff

Normalize ==
    /\ nStage = "input"
    /\ nOut' = normalizePostUrl(nUrl, nBase)
    /\ nStage' = "normalized"
    /\ UNCHANGED <<nUrl, nBase, nOut2, nKind, extractVars, updateVars, syncVars, fleetVars, sweepVars>>

\* normalizePostUrl(meta.link), with no base, on a link normalizePostUrl made
Renormalize ==
    /\ nStage = "normalized"
    /\ nOut2' = normalizePostUrl(nOut, <<>>)
    /\ nStage' = "renormalized"
    /\ UNCHANGED <<nUrl, nBase, nOut, nKind, extractVars, updateVars, syncVars, fleetVars, sweepVars>>

NormalizeVariant ==
    /\ nStage = "normalized"
    /\ \E kind \in {"slash", "frag", "query"} :
        /\ nKind' = kind
        /\ nOut2' = normalizePostUrl(Variant(nUrl, kind), nBase)
    /\ nStage' = "variant"
    /\ UNCHANGED <<nUrl, nBase, nOut, extractVars, updateVars, syncVars, fleetVars, sweepVars>>

NextNorm == Normalize \/ Renormalize \/ NormalizeVariant

SpecNorm == InitNorm /\ [][NextNorm]_vars

(***************************************************************************)
(* Claims about the normalizer                                             *)
(***************************************************************************)

\* C8: normalization is idempotent: normalizing a normalized URL yields the
\* same string, for every input string and base.
C8_Idempotent == nStage = "renormalized" => nOut2 = nOut

\* a URL that parses, with no query, no fragment and no trailing slash
Bare(url, base) ==
    /\ url = Trim(url)
    /\ url # <<>>
    /\ \A i \in DOMAIN url : url[i] \notin {"?", "#"}
    /\ url[Len(url)] # "/"
    /\ NewURL(url, IF base = <<>> THEN <<DefaultOrigin>> ELSE base).ok

\* C9: a URL, the URL with one trailing slash and the URL with a fragment
\* normalize to the same string; the URL with a query string normalizes to a
\* different one.
C9_Equivalence ==
    (nStage = "variant" /\ Bare(nUrl, nBase)) =>
        /\ nKind \in {"slash", "frag"} => nOut2 = nOut
        /\ nKind = "query" => nOut2 # nOut

C9_Witness ==
    /\ nStage = "variant"
    /\ nKind = "slash"
    /\ nUrl = <<Origin, "/", "a">>
    /\ nOut2 = nOut

(***************************************************************************)
(* The field extractors on their own: an item is drawn, then one of the    *)
(* extractors of the two sync scripts is applied to it.                    *)
(***************************************************************************)
ContentValues == {Undefined, Null, "", " ", "first words", "other words"}
DateValues == {Undefined, Null, "", "not-a-date", GoodDate, "2024-03-05"}

\* RSS items with content fields, JSON posts with content fields, RSS items
\* with date fields, JSON posts with date fields
ItemContentInputs ==
    {[BlankItem EXCEPT !.content = v[1], !.contentEncoded = v[2], !.contentSnippet = v[3],
                       !.summary = v[4], !.description = v[5]] : v \in [1..5 -> ContentValues]}
PostContentInputs ==
    {[BlankItem EXCEPT !.content = v[1], !.body = v[2], !.description = v[3]] :
        v \in [1..3 -> ContentValues]}
ItemDateInputs ==
    {[BlankItem EXCEPT !.pubDate = v[1], !.updated = v[2]] : v \in [1..2 -> DateValues]}
PostDateInputs ==
    {[BlankItem EXCEPT !.published = v[1], !.pub_date = v[2], !.published_at = v[3],
                       !.date = v[4]] : v \in [1..4 -> DateValues]}

InitExtract ==
    /\ xItem \in ItemContentInputs \cup PostContentInputs \cup ItemDateInputs \cup PostDateInputs
    /\ xStage = "input"
    /\ xOut = NoOut
    /\ nUrl = <<>>
    /\ nBase = <<>>
    /\ nStage = "off"
    /\ nOut = <<>>
    /\ nOut2 = <<>>
    /\ nKind = "none"
    /\ UpdateOff
    /\ SyncOff
    /\ SweepOff

\* sync-posts.ts line 206
ExtractItemContent ==
    /\ xStage = "input"
    /\ xOut' = [xOut EXCEPT !.body = getItemContent(xItem)]
    /\ xStage' = "itemContent"
    /\ UNCHANGED <<xItem, normVars, updateVars, syncVars, fleetVars, sweepVars>>

\* the JSON ingest variant, line 166
ExtractPostContent ==
    /\ xStage = "input"
    /\ xOut' = [xOut EXCEPT !.body = getPostContent(xItem)]
    /\ xStage' = "postContent"
    /\ UNCHANGED <<xItem, normVars, updateVars, syncVars, fleetVars, sweepVars>>

\* sync-posts.ts line 194
ResolveItemDate ==
    /\ xStage = "input"
    /\ xOut' = [xOut EXCEPT !.date = getItemPubDate(xItem)]
    /\ xStage' = "itemDate"
    /\ UNCHANGED <<xItem, normVars, updateVars, syncVars, fleetVars, sweepVars>>

\* the JSON ingest variant, lines 149-154
ResolvePostDate ==
    /\ xStage = "input"
    /\ xOut' = [xOut EXCEPT !.date = parsePostDate(PostDateRaw(xItem))]
    /\ xStage' = "postDate"
    /\ UNCHANGED <<xItem, normVars, updateVars, syncVars, fleetVars, sweepVars>>

NextExtract == ExtractItemContent \/ ExtractPostContent \/ ResolveItemDate \/ ResolvePostDate

SpecExtract == InitExtract /\ [][NextExtract]_vars

(***************************************************************************)
(* Claims about the field extractors                                       *)
(***************************************************************************)
\* a field that holds a non-empty value
NonEmpty(v) == v # Undefined /\ v # Null /\ v # ""

\* the first non-empty value of the fields, in their order, or the literal
FirstNonEmpty(fields) ==
    LET idx == {i \in DOMAIN fields : NonEmpty(fields[i])}
    IN  IF idx = {} THEN FallbackBody
        ELSE fields[CHOOSE i \in idx : \A j \in idx : i <= j]

\* C21: the extracted body is the first non-empty value among the content
\* fields in their priority order, and the literal "See link for full
\* content." only when no field holds a non-empty value; an empty field of
\* higher priority does not hide a non-empty field of lower priority.
C21_FirstNonEmpty ==
    /\ xStage = "itemContent" =>
            xOut.body = FirstNonEmpty(<<xItem.content, xItem.contentEncoded,
                                        xItem.contentSnippet, xItem.summary, xItem.description>>)
    /\ xStage = "postContent" =>
            xOut.body = FirstNonEmpty(<<TrimBody(xItem.content), TrimBody(xItem.body),
                                        TrimBody(xItem.description)>>)

\* a candidate date field that is there and parses
ValidDate(v) == v # Undefined /\ v # Null /\ DateOf(v).valid

\* the date of the first candidate, in the order given, that is there and
\* parses; no date when there is none
FirstValidDate(fields) ==
    LET idx == {i \in DOMAIN fields : ValidDate(fields[i])}
    IN  IF idx = {} THEN NaN
        ELSE DateOf(fields[CHOOSE i \in idx : \A j \in idx : i <= j])

\* C26: of the candidate date fields in their priority order (pubDate, then
\* updated) the first present one is parsed, a candidate that is invalid or
\* does not parse counts as absent, and the result is no date only when all
\* candidates are absent or invalid; the JSON variant's resolver does the
\* same with the one candidate it is handed.
C26_DatePriority ==
    /\ xStage = "itemDate" => xOut.date = FirstValidDate(<<xItem.pubDate, xItem.updated>>)
    /\ xStage = "postDate" => xOut.date = FirstValidDate(<<PostDateRaw(xItem)>>)

(***************************************************************************)
(* sync-posts.ts main(): one action per step of the run                    *)
(***************************************************************************)
NumFeeds == Len(creator.feedUrls)

\* for (const feedUrl of feedUrls): on to feed f, or to the archive phase
GotoFeed(f) ==
    /\ pc' = IF f <= NumFeeds THEN "feed" ELSE "archive"
    /\ feedIdx' = f
    /\ itemIdx' = 0
    /\ feedLink' = <<>>

\* for (const item of feed.items): on to item i of feed f, or to the next feed
GotoItem(f, i) ==
    IF i <= Len(feeds[f].items)
    THEN /\ pc' = "item"
         /\ itemIdx' = i
         /\ UNCHANGED <<feedIdx, feedLink>>
    ELSE GotoFeed(f + 1)

\* for (const postUrl of postUrls): on to URL i, or to the end of the run
GotoArchiveUrl(urls, i) ==
    /\ pc' = IF i <= Len(urls) THEN "aitem" ELSE "done"
    /\ aIdx' = i

\* lines 158-177: the DedupIndex is built from the files on disk
HydratedUrls ==
    {normalizePostUrl(metadata[k].link, <<>>) : k \in {j \in DOMAIN metadata : Truthy(metadata[j].link)}}

\* no markdown base name read from disk
HydratedFilenames_None == {}

HydratedFilenames == DOMAIN posts

\* lines 141-147: creator.json is there and names a feed
ConfigOk(c) == c.errno = "" /\ Len(c.feedUrls) > 0

\* the process ends with status 0 all the same
ConfigFailure_ExitZero(c) == [status |-> 0, stdout |-> "", stderr |-> ""]

\* what the process ends with otherwise: the rejection of readFile (line 141)
\* leaves main() unhandled, no feed URL is process.exit(1) (lines 144-147)
ConfigFailure(c) ==
    [status |-> 1,
     stdout |-> "",
     stderr |-> IF c.errno # "" THEN c.errno ELSE "No feedUrls in creator.json"]

\* lines 140-147: the run ends before posts/ and metadata/ are touched
StartFail ==
    /\ pc = "idle"
    /\ runs < MaxRuns
    /\ ~ConfigOk(creator)
    /\ runs' = runs + 1
    /\ exitStatus' = <<ConfigFailure(creator).status>>
    /\ UNCHANGED <<notSync, fetched, worldVars, diskVars, runVars, faults, delivered>>

\* lines 139-180
Start ==
    /\ pc = "idle"
    /\ runs < MaxRuns
    /\ ConfigOk(creator)
    /\ runs' = runs + 1
    /\ exitStatus' = <<>>
    /\ seenUrls' = HydratedUrls
    /\ seenFilenames' = HydratedFilenames
    /\ GotoFeed(1)
    /\ UNCHANGED <<notSync, fetched, worldVars, diskVars, cur, postUrls, aIdx,
                   writtenRss, writtenArchive, faults, delivered>>

\* lines 185-186: parser.parseURL(feedUrl) resolves
FetchFeedOk ==
    /\ pc = "feed"
    /\ feeds[feedIdx].errno = ""
    /\ LET feed == feeds[feedIdx]
           feedUrl == creator.feedUrls[feedIdx]
       IN  IF Len(feed.items) >= 1
           THEN /\ feedLink' = IF Truthy(feed.link)
                                THEN normalizePostUrl(feed.link, feedUrl)
                                ELSE feedUrl
                /\ pc' = "item"
                /\ itemIdx' = 1
                /\ UNCHANGED feedIdx
           ELSE GotoFeed(feedIdx + 1)
    /\ fetched' = fetched \cup {feedIdx}
    /\ UNCHANGED <<notSync, exitStatus, worldVars, diskVars, seenUrls, seenFilenames, cur,
                   postUrls, aIdx, writtenRss, writtenArchive, runs, faults, delivered>>

\* the rejection ends the loop over the feeds
FetchFeedFail_Abort ==
    /\ faults < MaxFaults
    /\ faults' = faults + 1
    /\ pc = "feed"
    /\ GotoFeed(NumFeeds + 1)
    /\ UNCHANGED <<notSync, fetched, exitStatus, worldVars, diskVars, seenUrls, seenFilenames,
                   cur, postUrls, aIdx, writtenRss, writtenArchive, runs, delivered>>

\* lines 185, 226-228: parser.parseURL(feedUrl) rejects, the catch logs it
FetchFeedFail ==
    /\ faults < MaxFaults
    /\ faults' = faults + 1
    /\ pc = "feed"
    /\ GotoFeed(feedIdx + 1)
    /\ UNCHANGED <<notSync, fetched, exitStatus, worldVars, diskVars, seenUrls, seenFilenames, cur,
                   postUrls, aIdx, writtenRss, writtenArchive, runs, delivered>>

\* lines 185, 226-228: the host of the feed cannot be reached, parseURL
\* rejects and the catch logs it
FetchFeedDown ==
    /\ pc = "feed"
    /\ feeds[feedIdx].errno # ""
    /\ GotoFeed(feedIdx + 1)
    /\ UNCHANGED <<notSync, fetched, exitStatus, worldVars, diskVars, seenUrls, seenFilenames, cur,
                   postUrls, aIdx, writtenRss, writtenArchive, runs, faults, delivered>>

CurItem == feeds[feedIdx].items[itemIdx]

RawLink(item) == IF Truthy(item.link) THEN item.link ELSE item.guid

ItemLink(item) == normalizePostUrl(RawLink(item), feedLink)

\* source, line 179
Source == IF IsSubstack(creator.blogUrl) THEN "substack" ELSE "blog"

Description(item) ==
    LET d == Coalesce(item.contentSnippet, Coalesce(item.summary, item.description))
    IN  IF TruthyStr(d) THEN d ELSE Undefined

\* lines 188-191: an item with no link, or with a link already seen
SkipItem ==
    /\ pc = "item"
    /\ \/ ~Truthy(RawLink(CurItem)) /\ UNCHANGED delivered
       \/ /\ Truthy(RawLink(CurItem))
          /\ ItemLink(CurItem) \in seenUrls
          /\ delivered' = delivered \cup {ItemLink(CurItem)}
    /\ GotoItem(feedIdx, itemIdx + 1)
    /\ UNCHANGED <<notSync, fetched, exitStatus, worldVars, diskVars, seenUrls, seenFilenames, cur,
                   postUrls, aIdx, writtenRss, writtenArchive, runs, faults>>

\* lines 192-219: a new link: marked seen, its key allocated, its files built
AcceptItem ==
    /\ pc = "item"
    /\ Truthy(RawLink(CurItem))
    /\ ItemLink(CurItem) \notin seenUrls
    /\ LET item == CurItem
           link == ItemLink(item)
           pubDate == getItemPubDate(item)
           dateStr == IF pubDate.valid THEN formatDate(pubDate) ELSE "unknown"
           title == Trim(IF Truthy(item.title) THEN item.title
                         ELSE <<"U", "n", "t", "i", "t", "l", "e", "d">>)
           base == BaseName(dateStr, slugify(title))
           baseName == AllocateKey(base, seenFilenames)
           iso == IF pubDate.valid THEN toISOString(pubDate) ELSE <<>>
       IN  /\ seenUrls' = seenUrls \cup {link}
           /\ seenFilenames' = seenFilenames \cup {baseName}
           /\ delivered' = delivered \cup {link}
           /\ cur' = [base |-> base,
                      baseName |-> baseName,
                      link |-> link,
                      md |-> [title |-> title, published |-> dateStr, link |-> link,
                              content |-> getItemContent(item)],
                      meta |-> [title |-> title,
                                link |-> link,
                                published |-> IF pubDate.valid THEN iso ELSE <<Null>>,
                                updated |-> IF pubDate.valid THEN iso ELSE <<Undefined>>,
                                source |-> Source,
                                feedUrl |-> creator.feedUrls[feedIdx],
                                description |-> Description(item),
                                guid |-> IF Truthy(item.guid) THEN item.guid ELSE link,
                                supplement |-> FALSE]]
    /\ pc' = "writeMd"
    /\ UNCHANGED <<notSync, fetched, exitStatus, worldVars, diskVars, feedIdx, itemIdx, feedLink,
                   postUrls, aIdx, writtenRss, writtenArchive, runs, faults>>

\* writeFile(path, content): creates the file or replaces its content
WriteFile(dir, key, content) == (key :> content) @@ dir

\* line 220
WriteMdOk ==
    /\ pc = "writeMd"
    /\ posts' = WriteFile(posts, cur.baseName, cur.md)
    /\ pc' = "writeMeta"
    /\ UNCHANGED <<notSync, fetched, exitStatus, worldVars, metadata, seenUrls, seenFilenames, feedIdx,
                   itemIdx, feedLink, cur, postUrls, aIdx, writtenRss, writtenArchive,
                   runs, faults, delivered>>

\* line 220 rejects: the catch of the feed (226-228) ends this feed's items
WriteMdFail ==
    /\ faults < MaxFaults
    /\ faults' = faults + 1
    /\ pc = "writeMd"
    /\ GotoFeed(feedIdx + 1)
    /\ cur' = NoCur
    /\ UNCHANGED <<notSync, fetched, exitStatus, worldVars, diskVars, seenUrls, seenFilenames,
                   postUrls, aIdx, writtenRss, writtenArchive, runs, delivered>>

\* lines 222-224
WriteMetaOk ==
    /\ pc = "writeMeta"
    /\ metadata' = WriteFile(metadata, cur.baseName, cur.meta)
    /\ writtenRss' = writtenRss + 1
    /\ cur' = NoCur
    /\ GotoItem(feedIdx, itemIdx + 1)
    /\ UNCHANGED <<notSync, fetched, exitStatus, worldVars, posts, seenUrls, seenFilenames,
                   postUrls, aIdx, writtenArchive, runs, faults, delivered>>

\* line 223 rejects: the catch of the feed ends this feed's items
WriteMetaFail ==
    /\ faults < MaxFaults
    /\ faults' = faults + 1
    /\ pc = "writeMeta"
    /\ GotoFeed(feedIdx + 1)
    /\ cur' = NoCur
    /\ UNCHANGED <<notSync, fetched, exitStatus, worldVars, diskVars, seenUrls, seenFilenames,
                   postUrls, aIdx, writtenRss, writtenArchive, runs, delivered>>

\* lines 233-236
BlogUrl == Trim(creator.blogUrl)

Strategy ==
    Coalesce(creator.supplementStrategy,
             IF IsSubstack(BlogUrl) THEN "substack_archive" ELSE "none")

\* the strategy in creator.json is not looked at
Supplements_AnySubstack == IsSubstack(BlogUrl)

Supplements == IsSubstack(BlogUrl) /\ Strategy = "substack_archive"

\* new URL("/archive", blogUrl).href
ArchiveUrl == Serialize(NewURL(<<"/", "archive">>, BlogUrl))

\* line 236: no archive supplement for this owner
ArchiveSkip ==
    /\ pc = "archive"
    /\ ~Supplements
    /\ pc' = "done"
    /\ UNCHANGED <<notSync, fetched, exitStatus, worldVars, diskVars, seenUrls, seenFilenames, feedIdx,
                   itemIdx, feedLink, cur, postUrls, aIdx, writtenRss, writtenArchive,
                   runs, faults, delivered>>

\* lines 238-246: the page is fetched and its post URLs extracted
ArchiveFetchOk ==
    /\ pc = "archive"
    /\ Supplements
    /\ NewURL(<<"/", "archive">>, BlogUrl).ok
    /\ LET urls == extractSubstackPostUrls(archiveHtml, ArchiveUrl)
       IN  /\ postUrls' = urls
           /\ GotoArchiveUrl(urls, 1)
    /\ UNCHANGED <<notSync, fetched, exitStatus, worldVars, diskVars, seenUrls, seenFilenames, feedIdx,
                   itemIdx, feedLink, cur, writtenRss, writtenArchive, runs, faults, delivered>>

\* the rejection is not caught and ends the process
ArchiveFetchFail_Fatal ==
    /\ faults < MaxFaults
    /\ faults' = faults + 1
    /\ pc = "archive"
    /\ Supplements
    /\ pc' = "idle"
    /\ exitStatus' = <<1>>
    /\ UNCHANGED <<notSync, fetched, worldVars, diskVars, seenUrls, seenFilenames, feedIdx,
                   itemIdx, feedLink, cur, postUrls, aIdx, writtenRss, writtenArchive,
                   runs, delivered>>

\* lines 238-245 throw: the catch (280-282) logs it
ArchiveFetchFail ==
    /\ faults < MaxFaults
    /\ faults' = faults + 1
    /\ pc = "archive"
    /\ Supplements
    /\ pc' = "done"
    /\ UNCHANGED <<notSync, fetched, exitStatus, worldVars, diskVars, seenUrls, seenFilenames, feedIdx,
                   itemIdx, feedLink, cur, postUrls, aIdx, writtenRss, writtenArchive,
                   runs, delivered>>

ArchiveLink(postUrl) == normalizePostUrl(postUrl, BlogUrl)

\* lines 248-249
SkipArchiveUrl ==
    /\ pc = "aitem"
    /\ ArchiveLink(postUrls[aIdx]) \in seenUrls
    /\ GotoArchiveUrl(postUrls, aIdx + 1)
    /\ UNCHANGED <<notSync, fetched, exitStatus, worldVars, diskVars, seenUrls, seenFilenames, feedIdx,
                   itemIdx, feedLink, cur, postUrls, writtenRss, writtenArchive,
                   runs, faults, delivered>>

\* lines 250-273: a stub for a URL the run has not seen
AcceptArchiveUrl ==
    /\ pc = "aitem"
    /\ ArchiveLink(postUrls[aIdx]) \notin seenUrls
    /\ LET postUrl == postUrls[aIdx]
           normalized == ArchiveLink(postUrl)
           baseName == BaseName("unknown", slugFromSubstackPath(postUrl))
           finalBase == AllocateKey(baseName, seenFilenames)
       IN  /\ seenUrls' = seenUrls \cup {normalized}
           /\ seenFilenames' = seenFilenames \cup {finalBase}
           /\ cur' = [base |-> baseName,
                      baseName |-> finalBase,
                      link |-> normalized,
                      md |-> [title |-> <<"U", "n", "t", "i", "t", "l", "e", "d">>,
                              published |-> "unknown", link |-> normalized,
                              content |-> "See link for full content."],
                      meta |-> [title |-> <<"U", "n", "t", "i", "t", "l", "e", "d">>,
                                link |-> normalized,
                                published |-> <<Null>>,
                                updated |-> <<Undefined>>,
                                source |-> "substack",
                                feedUrl |-> creator.feedUrls[1],
                                description |-> Undefined,
                                guid |-> normalized,
                                supplement |-> TRUE]]
    /\ pc' = "writeStubMd"
    /\ UNCHANGED <<notSync, fetched, exitStatus, worldVars, diskVars, feedIdx, itemIdx, feedLink,
                   postUrls, aIdx, writtenRss, writtenArchive, runs, faults, delivered>>

\* line 274
WriteStubMdOk ==
    /\ pc = "writeStubMd"
    /\ posts' = WriteFile(posts, cur.baseName, cur.md)
    /\ pc' = "writeStubMeta"
    /\ UNCHANGED <<notSync, fetched, exitStatus, worldVars, metadata, seenUrls, seenFilenames, feedIdx,
                   itemIdx, feedLink, cur, postUrls, aIdx, writtenRss, writtenArchive,
                   runs, faults, delivered>>

\* lines 276-278
WriteStubMetaOk ==
    /\ pc = "writeStubMeta"
    /\ metadata' = WriteFile(metadata, cur.baseName, cur.meta)
    /\ writtenArchive' = writtenArchive + 1
    /\ cur' = NoCur
    /\ GotoArchiveUrl(postUrls, aIdx + 1)
    /\ UNCHANGED <<notSync, fetched, exitStatus, worldVars, posts, seenUrls, seenFilenames, feedIdx,
                   itemIdx, feedLink, postUrls, writtenRss, runs, faults, delivered>>

\* line 274 or 277 rejects: the catch of the archive phase ends it
WriteStubFail ==
    /\ faults < MaxFaults
    /\ faults' = faults + 1
    /\ pc \in {"writeStubMd", "writeStubMeta"}
    /\ pc' = "done"
    /\ cur' = NoCur
    /\ UNCHANGED <<notSync, fetched, exitStatus, worldVars, diskVars, seenUrls, seenFilenames, feedIdx,
                   itemIdx, feedLink, postUrls, aIdx, writtenRss, writtenArchive,
                   runs, delivered>>

\* the process is gone: its memory with it, the files stay
Exit ==
    /\ pc' = "idle"
    /\ seenUrls' = {}
    /\ seenFilenames' = {}
    /\ feedIdx' = 0
    /\ itemIdx' = 0
    /\ feedLink' = <<>>
    /\ cur' = NoCur
    /\ postUrls' = <<>>
    /\ aIdx' = 0
    /\ writtenRss' = 0
    /\ writtenArchive' = 0
    /\ delivered' = {}
    /\ fetched' = {}
    /\ UNCHANGED <<notSync, worldVars, diskVars, runs>>

\* a run that synced nothing ends with a failure status
ExitCode_FailsWhenEmpty(rss, archive) == IF rss + archive = 0 THEN 1 ELSE 0

\* lines 285-288: main() returns whatever the two counts are, and the
\* process ends with status 0
ExitCode(rss, archive) == 0

\* line 285: the summary is logged and main() returns
Finish ==
    /\ pc = "done"
    /\ Exit
    /\ exitStatus' = <<ExitCode(writtenRss, writtenArchive)>>
    /\ UNCHANGED faults

\* the process is stopped between two of its steps
Interrupt ==
    /\ pc \notin {"idle", "done"}
    /\ Exit
    /\ exitStatus' = <<137>>
    /\ faults < MaxFaults
    /\ faults' = faults + 1

FetchFault == FetchFeedFail \/ ArchiveFetchFail

WriteFault == WriteMdFail \/ WriteMetaFail \/ WriteStubFail

\* a run in which every fetch and every write succeeds
NextClean ==
    \/ Start
    \/ StartFail
    \/ FetchFeedOk
    \/ SkipItem
    \/ AcceptItem
    \/ WriteMdOk
    \/ WriteMetaOk
    \/ ArchiveSkip
    \/ ArchiveFetchOk
    \/ SkipArchiveUrl
    \/ AcceptArchiveUrl
    \/ WriteStubMdOk
    \/ WriteStubMetaOk
    \/ Finish

\* fetches may fail
NextFetchFaults == NextClean \/ FetchFault

\* fetches and writes may fail, and are caught
NextCaught == NextFetchFaults \/ WriteFault

Next == NextCaught \/ Interrupt

Spec == Init /\ [][Next]_vars

SpecClean == Init /\ [][NextClean]_vars

SpecFetchFaults == Init /\ [][NextFetchFaults]_vars

SpecCaught == Init /\ [][NextCaught]_vars

\* owners some or all of whose feed hosts cannot be reached
OutageFeeds ==
    {DownFeed,
     [link |-> <<Origin, "/">>, items |-> <<>>, errno |-> ""],
     [link |-> <<Origin, "/">>, items |-> <<Item(PostA, Hello, GoodDate, "full text")>>,
      errno |-> ""]}

OutageWorlds ==
    {w \in [feeds : [1..Len(FeedUrls) -> OutageFeeds], html : SeqUpTo(HrefPool, 1)] :
        \E f \in DOMAIN w.feeds : w.feeds[f] = DownFeed}

InitOutage ==
    /\ NormIdle
    /\ SweepOff
    /\ creator \in Creators \cup {NoFeedsCreator}
    /\ \E w \in OutageWorlds :
            /\ feeds = w.feeds
            /\ archiveHtml = w.html
    /\ posts = <<>>
    /\ metadata = <<>>
    /\ runs = 0
    /\ faults = 0
    /\ exitStatus = <<>>
    /\ Idle

\* fetches may fail, and the fetch of a feed whose host is down does
NextOutage == NextFetchFaults \/ FetchFeedDown

(***************************************************************************)
(* Claims about the per-owner sync                                         *)
(***************************************************************************)

\* C1: a run that follows a complete run against the same feeds and archive
\* page, every fetch and write succeeding, writes no file.
C1_Idempotent == (pc = "done" /\ runs >= 2) => (writtenRss = 0 /\ writtenArchive = 0)

\* C2: no two metadata files hold links that normalize to the same URL.
C2_NoDuplicateLinks ==
    \A k1, k2 \in DOMAIN metadata :
        normalizePostUrl(metadata[k1].link, <<>>) = normalizePostUrl(metadata[k2].link, <<>>)
            => k1 = k2

\* C3: whatever step a run is stopped at, the runs after it leave no post
\* stored under two storage keys.
C3_SafeResume ==
    \A k1, k2 \in DOMAIN posts : posts[k1].link = posts[k2].link => k1 = k2

\* the links the archive page yields
ArchiveLinks ==
    IF Supplements /\ NewURL(<<"/", "archive">>, BlogUrl).ok
    THEN {ArchiveLink(u) : u \in Range(extractSubstackPostUrls(archiveHtml, ArchiveUrl))}
    ELSE {}

RecordsOf(link) == {k \in DOMAIN metadata : metadata[k].link = link}

\* C4: at the end of a run whose feed phase was handed an item that the
\* archive page links too, the store holds one record for it, and that
\* record is the feed's, not a stub.
C4_FeedRecordWins ==
    pc = "done" =>
        \A u \in delivered \cap ArchiveLinks :
            /\ Cardinality(RecordsOf(u)) = 1
            /\ \A k \in RecordsOf(u) : ~metadata[k].supplement

\* C5: the key of an accepted post is its date_slug when that is free in the
\* live key set (the markdown names on disk and the keys allocated earlier
\* in the run), and otherwise date_slug-n for the smallest n >= 1 that is
\* free; it is never a key of the live set.
C5_Allocated ==
    (pc \in {"item", "aitem"} /\ pc' \in {"writeMd", "writeStubMd"}) =>
        LET live == seenFilenames
            b == cur'.base
            k == cur'.baseName
        IN  /\ DOMAIN posts \subseteq live
            /\ k \notin live
            /\ seenFilenames' = live \cup {k}
            /\ b \notin live => k = b
            /\ b \in live =>
                \E n \in 1..(Cardinality(live) + 1) :
                    /\ k = Suffixed(b, n)
                    /\ \A m \in 1..(n - 1) : Suffixed(b, m) \in live

HelloKey == <<"2024-01-01", "_", "h", "e", "l", "l", "o">>

C6_Additive ==
    /\ \A k \in DOMAIN posts : k \in DOMAIN posts' /\ posts'[k] = posts[k]
    /\ \A k \in DOMAIN metadata : k \in DOMAIN metadata' /\ metadata'[k] = metadata[k]
    /\ pc \in {"writeMd", "writeStubMd"} => cur.baseName \notin DOMAIN posts
    /\ pc \in {"writeMeta", "writeStubMeta"} => cur.baseName \notin DOMAIN metadata

C7_PersistedPair == pc = "idle" => DOMAIN posts = DOMAIN metadata

\* the link of item i of feed f, as line 186 and line 190 make it
FeedLinkOf(f) ==
    IF Truthy(feeds[f].link) THEN normalizePostUrl(feeds[f].link, creator.feedUrls[f])
    ELSE creator.feedUrls[f]

Stored(item, f) ==
    /\ Truthy(RawLink(item))
    /\ \E k \in DOMAIN metadata :
        /\ metadata[k].link = normalizePostUrl(RawLink(item), FeedLinkOf(f))
        /\ k \in DOMAIN posts

\* past the feed phase every feed has been fetched or has failed
C18_AllFeedsTried ==
    pc \in {"archive", "aitem", "writeStubMd", "writeStubMeta", "done"} =>
        Cardinality(fetched) >= NumFeeds - faults

\* C18 as it stands: a feed that fails does not end the feed phase, and at
\* the end of the run every item of every feed that was fetched is stored.
C18_EveryItemWritten ==
    /\ C18_AllFeedsTried
    /\ pc = "done" =>
        \A f \in fetched : \A i \in DOMAIN feeds[f].items : Stored(feeds[f].items[i], f)

\* C18, amended: a feed that fails does not end the feed phase, and at the
\* end of the run every item that has a link or a guid, of every feed that
\* was fetched, is stored.
C18_LinkedItemsWritten ==
    /\ C18_AllFeedsTried
    /\ pc = "done" =>
        \A f \in fetched : \A i \in DOMAIN feeds[f].items :
            Truthy(RawLink(feeds[f].items[i])) => Stored(feeds[f].items[i], f)

\* the first feed failed and an item of the second was written
C18_Witness ==
    /\ pc = "done"
    /\ runs = 1
    /\ faults = 1
    /\ fetched = {2}
    /\ writtenRss = 1

\* the step on which the archive fetch fails, and the end of the run
C19_Step ==
    /\ (pc = "archive" /\ Supplements /\ faults' = faults + 1) =>
            /\ pc' = "done"
            /\ writtenArchive' = 0
            /\ writtenRss' = writtenRss
            /\ posts' = posts
            /\ metadata' = metadata
    /\ (pc = "done" /\ pc' # "done") =>
            /\ exitStatus' = <<0>>
            /\ posts' = posts
            /\ metadata' = metadata

\* C19: a failed fetch of the archive page is caught: no stub is written,
\* the posts of the feed phase stay stored and the run ends normally.
C19_ArchiveFailureCaught == [][C19_Step]_vars

\* both feeds fetched, a post written, the archive fetch failed
C19_Witness ==
    /\ pc = "done"
    /\ Supplements
    /\ archiveHtml # <<>>
    /\ faults = 1
    /\ fetched = {1, 2}
    /\ writtenRss = 1
    /\ writtenArchive = 0
    /\ Cardinality(DOMAIN posts) = 1

\* the item's date field is there and new Date() cannot parse it
Unparseable(item) ==
    /\ item.pubDate # Undefined
    /\ item.pubDate # Null
    /\ ~DateOf(item.pubDate).valid

C22_Step ==
    /\ (pc = "item" /\ Unparseable(CurItem) /\ Truthy(RawLink(CurItem))
            /\ ItemLink(CurItem) \notin seenUrls) =>
            /\ pc' = "writeMd"
            /\ cur'.baseName[1] = "unknown"
            /\ cur'.meta.published = <<Null>>
    /\ (pc = "writeMeta" /\ pc' # "writeMeta" /\ Unparseable(CurItem)) =>
            /\ cur.baseName[1] = "unknown"
            /\ cur.baseName \in DOMAIN posts'
            /\ cur.baseName \in DOMAIN metadata'
            /\ metadata'[cur.baseName].published = <<Null>>
            /\ metadata'[cur.baseName].link = ItemLink(CurItem)
            /\ exitStatus' = exitStatus

\* C22: an item whose date is present but does not parse is neither an error
\* nor skipped: it is stored under a key whose date token is "unknown", with
\* published = null in its metadata.
C22_DateFallback == [][C22_Step]_vars

\* the run is over and the post with the date that does not parse is stored
C22_Witness ==
    /\ pc = "done"
    /\ \E f \in DOMAIN feeds : \E i \in DOMAIN feeds[f].items :
            /\ f \in fetched
            /\ Unparseable(feeds[f].items[i])
    /\ \E k \in DOMAIN metadata :
            /\ k[1] = "unknown"
            /\ k \in DOMAIN posts
            /\ metadata[k].published = <<Null>>
            /\ ~metadata[k].supplement

\* creator.json files that set supplementStrategy, next to those that leave
\* it out
StrategyCreators ==
    {[SubstackCreator EXCEPT !.supplementStrategy = s] :
        s \in {Undefined, "none", "browser", "substack_archive"}}
    \cup {[BlogCreator EXCEPT !.supplementStrategy = s] : s \in {Undefined, "substack_archive"}}

\* an empty store, an owner with or without a supplement strategy
InitStrategies ==
    /\ NormIdle
    /\ SweepOff
    /\ creator \in StrategyCreators \cup {NoFeedsCreator}
    /\ \E w \in Worlds :
            /\ feeds = w.feeds
            /\ archiveHtml = w.html
    /\ posts = <<>>
    /\ metadata = <<>>
    /\ runs = 0
    /\ faults = 0
    /\ exitStatus = <<>>
    /\ Idle

SpecStrategies == InitStrategies /\ [][NextClean]_vars

\* the owner's strategy is archive: configured, or left out with the
\* primary URL on the newsletter platform
ArchiveStrategy ==
    \/ creator.supplementStrategy = "substack_archive"
    \/ creator.supplementStrategy = Undefined /\ IsSubstack(creator.blogUrl)

C27_NoArchive ==
    ~ArchiveStrategy =>
        /\ pc \notin {"aitem", "writeStubMd", "writeStubMeta"}
        /\ postUrls = <<>>
        /\ writtenArchive = 0
        /\ \A k \in DOMAIN metadata : ~metadata[k].supplement

C27_Step ==
    (pc = "archive" /\ ~ArchiveStrategy) =>
        /\ pc' = "done"
        /\ posts' = posts
        /\ metadata' = metadata

\* C27: the archive supplement applies only when the owner's strategy is
\* archive, configured or inferred: with strategy none or browser no archive
\* page is fetched and no stub record is ever written.
C27_ArchiveOnlyWhenStrategy == []C27_NoArchive /\ [][C27_Step]_vars

\* a newsletter owner with strategy browser whose archive page links a post
\* the feeds do not hold: the second run is over and no stub is stored
C27_Witness ==
    /\ creator = [SubstackCreator EXCEPT !.supplementStrategy = "browser"]
    /\ archiveHtml # <<>>
    /\ feeds[1].items = <<>>
    /\ feeds[2].items = <<>>
    /\ runs = 2
    /\ pc = "done"
    /\ fetched = {1, 2}
    /\ metadata = <<>>
    /\ writtenArchive = 0

(***************************************************************************)
(* sync-all-subrepos.ts: the fleet sweep                                   *)
(***************************************************************************)
DefaultDelaySec == 3
DefaultRetries == 2

\* parseInt(s, 10) of the argument strings of this model; NaN for the rest
Numerals == (0 - 2)..(MaxRetries + 1)
IsNumeral(str) == \E n \in Numerals : ToString(n) = str
ParseInt(str) == CHOOSE n \in Numerals : ToString(n) = str

Max(a, b) == IF a >= b THEN a ELSE b

\* the value taken as it was parsed
AtLeast_NoFloor(floor, str) ==
    IF IsNumeral(str) /\ ParseInt(str) # 0 THEN ParseInt(str) ELSE floor

\* Math.max(floor, parseInt(s, 10) || floor)
AtLeast(floor, str) ==
    IF IsNumeral(str) /\ ParseInt(str) # 0 THEN Max(floor, ParseInt(str)) ELSE floor

RECURSIVE ParseArgsFrom(_, _, _)
ParseArgsFrom(args, i, acc) ==
    IF i > Len(args) THEN acc
    ELSE IF args[i] \in {"--delay", "-d"} /\ i + 1 <= Len(args) /\ args[i + 1] # ""
        THEN ParseArgsFrom(args, i + 2, [acc EXCEPT !.delaySec = AtLeast(0, args[i + 1])])
    ELSE IF args[i] \in {"--retries", "-r"} /\ i + 1 <= Len(args) /\ args[i + 1] # ""
        THEN ParseArgsFrom(args, i + 2, [acc EXCEPT !.retries = AtLeast(1, args[i + 1])])
    ELSE ParseArgsFrom(args, i + 1, acc)

parseArgs(args) ==
    ParseArgsFrom(args, 1, [delaySec |-> DefaultDelaySec, retries |-> DefaultRetries])

\* the command lines of this model: no flag, one flag and its value, a flag
\* with no value or an empty one, a flag whose value is the other flag, both
ArgValues == {ToString(n) : n \in (0 - 1)..MaxRetries} \cup {"x"}
ArgvPool == {<<>>} \cup {<<f, v>> : f \in {"--delay", "--retries"}, v \in ArgValues}
                   \cup {<<"-d", "0", "-r", ToString(MaxRetries)>>,
                         <<"--retries">>,
                         <<"--delay", "">>,
                         <<"-d", "-r", "0">>}

Slugs == <<"A", "B", "C", "D", "E", "F">>

EntryKinds == {"creator", "nofeeds", "nojson", "noscript", "hidden", "file"}

\* an entry of subrepos/ and what it holds: a creator repo, a creator repo
\* whose creator.json names no feed, a directory without creator.json or
\* without scripts/sync-posts.ts, a creator repo in a dot directory, a file;
\* the kind "down" is a creator repo whose feed and archive hosts cannot be
\* reached
Entry(name, kind) ==
    [name |-> IF kind = "hidden" THEN "." \o name ELSE name,
     isDirectory |-> kind # "file",
     startsWithDot |-> kind = "hidden",
     hasCreatorJson |-> kind \in {"creator", "nofeeds", "noscript", "hidden", "down"},
     hasSyncScript |-> kind \in {"creator", "nofeeds", "nojson", "hidden", "down"},
     sourcesDown |-> kind = "down",
     creator |-> IF kind \in {"creator", "noscript", "hidden", "down"} THEN SubstackCreator
                 ELSE IF kind = "nofeeds" THEN NoFeedsCreator
                 ELSE NoCreator]

Listings ==
    UNION {{[i \in 1..n |-> Entry(Slugs[i], kinds[i])] :
                kinds \in [1..n -> EntryKinds]} : n \in 0..MaxTargets}

\* lines 48 and 55-66: the directories that hold creator.json and
\* scripts/sync-posts.ts, in listing order
IsTarget(e) ==
    /\ e.isDirectory
    /\ ~e.startsWithDot
    /\ e.hasCreatorJson
    /\ e.hasSyncScript

Names(es) == [i \in DOMAIN es |-> es[i].name]

Discover(es) == Names(SelectSeq(es, IsTarget))

InitSweep ==
    /\ NormIdle
    /\ SyncOff
    /\ argv \in ArgvPool
    /\ entries \in Listings
    /\ manifest = NoFile
    /\ sPc = "start"
    /\ delaySec = 0
    /\ retries = 0
    /\ toSync = <<>>
    /\ round = 0
    /\ queue = <<>>
    /\ failed = <<>>
    /\ ok = 0
    /\ attempts = <<>>
    /\ running = {}
    /\ last = NoResult
    /\ log = <<>>
    /\ sweeps = 1
    /\ slept = 0

\* lines 44-75: arguments, discovery, and the first round laid out
SweepStart ==
    /\ sPc = "start"
    /\ LET args == parseArgs(argv)
           found == Discover(entries)
       IN  /\ delaySec' = args.delaySec
           /\ retries' = args.retries
           /\ toSync' = found
           /\ attempts' = [i \in DOMAIN found |-> 0]
           /\ IF found = <<>>
              THEN /\ sPc' = "done"
                   /\ UNCHANGED <<round, queue>>
              ELSE /\ sPc' = "attempt"
                   /\ round' = 1
                   /\ queue' = found
    /\ failed' = <<>>
    /\ ok' = 0
    /\ UNCHANGED <<aloneVars, syncVars, fleetVars, running, last, log, sweeps, slept>>

\* what bun run sync may return in a repo whose creator.json is in order:
\* exit status, stdout, stderr (status -1 when bun could not be spawned)
Outcomes ==
    {[status |-> 0, stdout |-> "Synced 1 from RSS; 0 from archive.", stderr |-> ""],
     [status |-> 1, stdout |-> "", stderr |-> "ENOSPC: no space left on device"],
     [status |-> 0 - 1, stdout |-> "", stderr |-> ""]}

\* what sync-posts.ts ends with when no fetch of the run succeeds: line 285
\* is reached with both counts at zero, the catches have logged the errors
OutageResult ==
    [status |-> ExitCode(0, 0), stdout |-> "Synced 0 from RSS; 0 from archive.",
     stderr |-> "Failed to fetch https://x.substack.com/feed: Error: connect ECONNREFUSED"]

EntryOf(slug) == entries[CHOOSE i \in DOMAIN entries : entries[i].name = slug]

\* what runSync(cwd) may return for a target: sync-posts.ts ends on its
\* configuration check when creator.json does not pass it
OutcomesOf(slug) ==
    IF ~ConfigOk(EntryOf(slug).creator) THEN {ConfigFailure(EntryOf(slug).creator)}
    ELSE IF EntryOf(slug).sourcesDown THEN {OutageResult}
    ELSE Outcomes

IndexOf(seq, x) == CHOOSE i \in DOMAIN seq : seq[i] = x

\* the targets of the failure records, last first
SlugsOf_Reversed(fs) == [i \in DOMAIN fs |-> fs[Len(fs) + 1 - i].slug]

SlugsOf(fs) == [i \in DOMAIN fs |-> fs[i].slug]

\* lines 78-79, 35: runSync(cwd) starts bun run sync in the next target of
\* the round; spawnSync returns when the child has exited
Spawn ==
    /\ sPc = "attempt"
    /\ running' = running \cup {Head(queue)}
    /\ sPc' = "running"
    /\ UNCHANGED <<aloneVars, syncVars, fleetVars, delaySec, retries, toSync, round, queue,
                   failed, ok, attempts, last, log, sweeps, slept>>

\* no sleep after the last attempt of a round
ShouldSleep_WithinRound == delaySec > 0 /\ Tail(queue) # <<>>

\* lines 99, 105: if (delaySec > 0)
ShouldSleep == delaySec > 0

\* the round ends with its first attempt
AfterAttempt_FirstOnly ==
    /\ queue' = <<>>
    /\ sPc' = "round"
    /\ round' = round + 1

\* after an attempt and its sleep: the next of the round, or the round's end
AfterAttempt ==
    /\ queue' = Tail(queue)
    /\ IF Tail(queue) # <<>>
       THEN /\ sPc' = "attempt"
            /\ UNCHANGED round
       ELSE /\ sPc' = "round"
            /\ round' = round + 1

\* lines 36-40, 79-90, 98, 104: the child has exited; attempt(slug, round)
\* reports it and keeps a failure
Attempt ==
    /\ sPc = "running"
    /\ LET slug == Head(queue)
       IN  \E out \in OutcomesOf(slug) :
            /\ running' = running \ {slug}
            /\ last' = [slug |-> slug, status |-> out.status, stdout |-> out.stdout,
                        stderr |-> out.stderr]
            /\ log' = Append(log, [slug |-> slug, attemptNum |-> round,
                                   ok |-> out.status = 0])
            /\ attempts' = [attempts EXCEPT ![IndexOf(toSync, slug)] = @ + 1]
            /\ IF out.status = 0
               THEN /\ ok' = ok + 1
                    /\ UNCHANGED failed
               ELSE /\ failed' = Append(failed, [slug |-> slug, lastStderr |-> out.stderr,
                                                 lastStdout |-> out.stdout])
                    /\ UNCHANGED ok
    /\ IF ShouldSleep
       THEN /\ sPc' = "sleep"
            /\ UNCHANGED <<round, queue>>
       ELSE AfterAttempt
    /\ UNCHANGED <<aloneVars, syncVars, fleetVars, delaySec, retries, toSync, sweeps, slept>>

\* lines 99, 105: await sleep(delaySec * 1000)
Sleep ==
    /\ sPc = "sleep"
    /\ slept' = slept + 1
    /\ AfterAttempt
    /\ UNCHANGED <<aloneVars, syncVars, fleetVars, delaySec, retries, toSync, failed, ok,
                   attempts, running, last, log, sweeps>>

\* the loop condition with one round too many
RoundInBudget_OneMore == round <= retries + 1

\* line 92: the loop condition round <= retries
RoundInBudget == round <= retries

\* the loop goes on past the budget while a target is still failed
RoundsExhausted_Retry ==
    /\ sPc = "round"
    /\ ~RoundInBudget
    /\ IF failed = <<>>
       THEN /\ sPc' = "summary"
            /\ UNCHANGED <<queue, failed>>
       ELSE /\ queue' = SlugsOf(failed)
            /\ failed' = <<>>
            /\ sPc' = "attempt"
    /\ UNCHANGED <<aloneVars, syncVars, fleetVars, delaySec, retries, toSync, round, ok,
                   attempts, running, last, log, sweeps, slept>>

\* line 92: round <= retries fails, the loop is left
RoundsExhausted ==
    /\ sPc = "round"
    /\ ~RoundInBudget
    /\ sPc' = "summary"
    /\ UNCHANGED <<aloneVars, syncVars, fleetVars, delaySec, retries, toSync, round, queue,
                   failed, ok, attempts, running, last, log, sweeps, slept>>

\* line 94: nothing failed, break
NothingToRetry ==
    /\ sPc = "round"
    /\ RoundInBudget
    /\ failed = <<>>
    /\ sPc' = "summary"
    /\ UNCHANGED <<aloneVars, syncVars, fleetVars, delaySec, retries, toSync, round, queue,
                   failed, ok, attempts, running, last, log, sweeps, slept>>

\* the failure records are kept over the retry round
RetryRound_NoSplice ==
    /\ sPc = "round"
    /\ RoundInBudget
    /\ failed # <<>>
    /\ queue' = SlugsOf(failed)
    /\ sPc' = "attempt"
    /\ UNCHANGED <<aloneVars, syncVars, fleetVars, delaySec, retries, toSync, round, ok,
                   attempts, running, last, log, sweeps, slept, failed>>

\* the retry round takes every target, failed or not
RetryRound_Everyone ==
    /\ sPc = "round"
    /\ RoundInBudget
    /\ failed # <<>>
    /\ queue' = toSync
    /\ failed' = <<>>
    /\ sPc' = "attempt"
    /\ UNCHANGED <<aloneVars, syncVars, fleetVars, delaySec, retries, toSync, round, ok,
                   attempts, running, last, log, sweeps, slept>>

\* the count of synced targets starts over with the retry round
RetryRound_ResetOk ==
    /\ sPc = "round"
    /\ RoundInBudget
    /\ failed # <<>>
    /\ queue' = SlugsOf(failed)
    /\ failed' = <<>>
    /\ ok' = 0
    /\ sPc' = "attempt"
    /\ UNCHANGED <<aloneVars, syncVars, fleetVars, delaySec, retries, toSync, round,
                   attempts, running, last, log, sweeps, slept>>

\* lines 95-96: toRetry = failed.splice(0, failed.length)
RetryRound ==
    /\ sPc = "round"
    /\ RoundInBudget
    /\ failed # <<>>
    /\ queue' = SlugsOf(failed)
    /\ failed' = <<>>
    /\ sPc' = "attempt"
    /\ UNCHANGED <<aloneVars, syncVars, fleetVars, delaySec, retries, toSync, round, ok,
                   attempts, running, last, log, sweeps, slept>>

\* every target of the sweep, failed or not
ManifestLines_All(fs) == toSync

\* line 118: lines = failed.map((f) => f.slug), one per line of the file
ManifestLines(fs) == SlugsOf(fs)

\* lines 109-121: the summary, and the manifest when a target is still failed
Summary ==
    /\ sPc = "summary"
    /\ manifest' = IF Len(failed) > 0 THEN ManifestLines(failed) ELSE manifest
    /\ sPc' = "done"
    /\ UNCHANGED <<aloneVars, syncVars, argv, entries, delaySec, retries, toSync, round,
                   queue, failed, ok, attempts, running, last, log, sweeps, slept>>

\* bun run sync-all once more, on the same fleet: main() starts over, the
\* manifest of the sweep before is on disk
SweepAgain ==
    /\ sPc = "done"
    /\ sweeps < MaxSweeps
    /\ sweeps' = sweeps + 1
    /\ slept' = 0
    /\ sPc' = "start"
    /\ delaySec' = 0
    /\ retries' = 0
    /\ toSync' = <<>>
    /\ round' = 0
    /\ queue' = <<>>
    /\ failed' = <<>>
    /\ ok' = 0
    /\ attempts' = <<>>
    /\ running' = {}
    /\ last' = NoResult
    /\ log' = <<>>
    /\ UNCHANGED <<aloneVars, syncVars, fleetVars>>

NextSweep ==
    \/ SweepStart
    \/ Spawn
    \/ Attempt
    \/ Sleep
    \/ RoundsExhausted
    \/ NothingToRetry
    \/ RetryRound
    \/ Summary

SpecSweep == InitSweep /\ [][NextSweep]_vars

\* every step of main() is taken once it can be: the process runs on
SpecSweepLive == SpecSweep /\ WF_vars(NextSweep)

\* sweep after sweep
NextSweeps == NextSweep \/ SweepAgain

\* the command lines of repeated sweeps: the defaults, one attempt each,
\* no delay with the most attempts, a delay of one second
SweepsArgv ==
    {<<>>, <<"--retries", "1">>, <<"-d", "0", "-r", ToString(MaxRetries)>>, <<"--delay", "1">>}

InitSweeps == InitSweep /\ argv \in SweepsArgv

SpecSweeps == InitSweeps /\ [][NextSweeps]_vars

\* one sweep on one of the command lines of SweepsArgv, every step of
\* main() taken once it can be
SpecSweepLiveArgs == InitSweeps /\ [][NextSweep]_vars /\ WF_vars(NextSweep)

(***************************************************************************)
(* Claims about the fleet sweep                                            *)
(***************************************************************************)
RECURSIVE Sum(_)
Sum(seq) == IF seq = <<>> THEN 0 ELSE Head(seq) + Sum(Tail(seq))

\* no target is invoked more than R times, no more than N*R invocations are
\* made, and no attempt is made in a round after the R-th
C10_Bounded ==
    /\ \A i \in DOMAIN attempts : attempts[i] <= retries
    /\ sPc # "start" => Sum(attempts) <= Len(toSync) * retries
    /\ sPc \in {"attempt", "sleep"} => (round >= 1 /\ round <= retries)
    /\ sPc # "start" => retries >= 1

\* a round that ends with no target in the failure set is the last: the
\* summary follows and no target is invoked again
C10_EndsEarly ==
    /\ (sPc = "round" /\ failed = <<>>) => sPc' = "summary"
    /\ sPc \in {"round", "summary", "done"} /\ failed = <<>> => attempts' = attempts
    /\ sPc \in {"summary", "done"} => attempts' = attempts

\* C10: for every set of N targets and every pattern of outcomes the sweep
\* terminates, after at most R rounds (R >= 1), having invoked each target at
\* most R times (at most N*R invocations in all), and it ends without a
\* further round as soon as a round leaves no target in the failure set.
C10_Termination ==
    /\ []C10_Bounded
    /\ [][C10_EndsEarly]_vars
    /\ <>(sPc = "done")

\* three targets, the second of which always fails, in a sweep of 2 rounds
C10_Witness ==
    /\ sPc = "done"
    /\ toSync = <<"A", "B", "C">>
    /\ retries = 2
    /\ attempts = <<1, 2, 1>>
    /\ ok = 2
    /\ manifest = <<"B">>

\* what the sweep has reported of a target, and in a round
Succeeded(t) == \E i \in DOMAIN log : log[i].slug = t /\ log[i].ok

FailedIn(t, r) == \E i \in DOMAIN log : log[i].slug = t /\ log[i].attemptNum = r /\ ~log[i].ok

Invocations(t, r) == Cardinality({i \in DOMAIN log : log[i].slug = t /\ log[i].attemptNum = r})

RecordsFor(fs, t) == {i \in DOMAIN fs : fs[i].slug = t}

\* at the end of a sweep: the failure set holds the targets no attempt of
\* which succeeded, once each, and the others are counted as succeeded
C11_AtEnd ==
    sPc \in {"summary", "done"} =>
        /\ \A t \in Range(toSync) : Cardinality(RecordsFor(failed, t)) = IF Succeeded(t) THEN 0 ELSE 1
        /\ \A i \in DOMAIN failed : failed[i].slug \in Range(toSync)
        /\ \A t \in Range(toSync) : \E r \in 1..retries : Invocations(t, r) = 1
        /\ ok = Cardinality({t \in Range(toSync) : Succeeded(t)})

\* an attempt that succeeds leaves no record of its target and counts it; one
\* that fails leaves one record of its target, holding its own output
C11_OnAttempt ==
    log' # log /\ log' # <<>> =>
        LET t == last'.slug
        IN  IF last'.status = 0
            THEN /\ RecordsFor(failed', t) = {}
                 /\ ok' = ok + 1
            ELSE /\ Cardinality(RecordsFor(failed', t)) = 1
                 /\ \A i \in RecordsFor(failed', t) :
                        /\ failed'[i].lastStderr = last'.stderr
                        /\ failed'[i].lastStdout = last'.stdout
                 /\ ok' = ok

\* C11: at the end of a sweep the failure set holds exactly the targets whose
\* every attempt failed; a target that succeeds in any round is out of the set
\* and counted as succeeded, and one that fails again on retry stays in it
\* with the output of its latest attempt in place of the earlier.
C11_FinalFailureSet == []C11_AtEnd /\ [][C11_OnAttempt]_vars

\* B failed twice, the second time because bun could not be spawned; A
\* failed and then succeeded
C11_Witness ==
    /\ sPc = "done"
    /\ toSync = <<"A", "B", "C">>
    /\ attempts = <<2, 2, 1>>
    /\ failed = <<[slug |-> "B", lastStderr |-> "", lastStdout |-> ""]>>
    /\ ok = 2

\* C12: round 1 invokes every discovered target exactly once and every retry
\* round invokes exactly once each target that failed in the round before
\* it, whatever the outcomes (success, non-zero exit, no spawn) of the other
\* invocations of the round.
C12_FailureIsolation ==
    /\ \A t \in Range(toSync) : \A r \in 1..(MaxRetries + 1) : Invocations(t, r) <= 1
    /\ sPc \in {"round", "summary", "done"} =>
        \A t \in Range(toSync) : \A r \in 1..(round - 1) :
            Invocations(t, r) = IF r = 1 \/ FailedIn(t, r - 1) THEN 1 ELSE 0

\* a first round whose first target could not be spawned, and a retry round
\* of two targets
C12_Witness ==
    /\ sPc = "round"
    /\ round = 3
    /\ Len(toSync) = 3
    /\ Len(log) = 5
    /\ ~log[1].ok
    /\ log[2].ok
    /\ ~log[4].ok

\* the targets the manifest lists
ManifestListed == IF manifest = NoFile THEN {} ELSE Range(manifest)

\* C13: when a target is still failed at the end of the sweep, the manifest
\* holds the identifiers of the failed targets, one per line, each once, and
\* no identifier of a target that succeeded.
C13_ManifestContents ==
    (sPc = "done" /\ failed # <<>>) =>
        /\ manifest # NoFile
        /\ Range(manifest) = {t \in Range(toSync) : ~Succeeded(t)}
        /\ \A i, j \in DOMAIN manifest : manifest[i] = manifest[j] => i = j
        /\ manifest = SlugsOf(failed)

C13_Witness ==
    /\ sPc = "done"
    /\ sweeps = 1
    /\ manifest = <<"A", "C">>
    /\ ok = 1

\* C14: after any sweep the manifest lists that sweep's unresolved failures
\* only: a target an earlier sweep listed and the latest sweep synced is no
\* longer listed, also when the latest sweep has no failure at all.
C14_ManifestCurrent ==
    (sPc = "done" /\ toSync # <<>>) => ManifestListed = Range(SlugsOf(failed))

\* C15: at most one child process runs at any time, it has exited before
\* the sweep goes on, round 1 takes the targets in listing order and each
\* retry round takes the failed targets in that same relative order.
C15_Sequential ==
    /\ Cardinality(running) <= 1
    /\ sPc # "running" => running = {}
    /\ sPc = "running" => running = {Head(queue)}
    /\ \A i, j \in DOMAIN log :
        i < j =>
            /\ log[i].attemptNum <= log[j].attemptNum
            /\ log[i].attemptNum = log[j].attemptNum =>
                    IndexOf(toSync, log[i].slug) < IndexOf(toSync, log[j].slug)
    /\ \A i \in DOMAIN log : log[i].attemptNum = 1 => log[i].slug = toSync[i]

\* the second target of a retry round runs; the first has been reported
C15_Witness ==
    /\ sPc = "running"
    /\ round = 2
    /\ running = {"C"}
    /\ Len(log) = 4
    /\ log[4].slug = "A"

\* the subdirectories of subrepos/ that hold both files
HoldBoth == {entries[i].name : i \in {j \in DOMAIN entries :
                /\ entries[j].isDirectory
                /\ entries[j].hasCreatorJson
                /\ entries[j].hasSyncScript}}

\* C16: a subdirectory is a target if and only if it holds creator.json and
\* scripts/sync-posts.ts; no other directory is invoked.
C16_Discovery ==
    /\ sPc \notin {"start", "off"} => Range(toSync) = HoldBoth
    /\ \A i \in DOMAIN log : log[i].slug \in HoldBoth

HasFlag(args, names) == \E i \in DOMAIN args : args[i] \in names

\* C17: the delay is 3 when no flag sets it and never below 0, the retry
\* round count is 2 when no flag sets it and never below 1, for every
\* argument list.
C17_Parameters ==
    sPc \notin {"start", "off"} =>
        /\ delaySec >= 0
        /\ retries >= 1
        /\ ~HasFlag(argv, {"--delay", "-d"}) => delaySec = 3
        /\ ~HasFlag(argv, {"--retries", "-r"}) => retries = 2
        /\ delaySec = parseArgs(argv).delaySec
        /\ retries = parseArgs(argv).retries

\* a negative retry count on the command line
C17_Witness ==
    /\ sPc = "done"
    /\ argv = <<"--retries", "-1">>
    /\ retries = 1
    /\ delaySec = 3
    /\ Len(log) = 2

\* the owner sync, or the fleet sweep
SpecFleet == (Init \/ InitSweep) /\ [][NextClean \/ NextSweep]_vars

Misconfigured(t) == ~ConfigOk(EntryOf(t).creator)

\* a run on a creator.json that is missing or names no feed ends with a
\* non-zero status and leaves posts/ and metadata/ as they were
C20_RunFails ==
    (pc = "idle" /\ ~ConfigOk(creator) /\ runs' # runs) =>
        /\ exitStatus' # <<0>>
        /\ exitStatus' # <<>>
        /\ pc' = "idle"
        /\ posts' = posts
        /\ metadata' = metadata

\* the attempt on such a target fails with what that run ends with, and
\* puts that target, and no other, in the failure set
C20_AttemptFails ==
    (log' # log /\ log' # <<>> /\ Misconfigured(last'.slug)) =>
        /\ last'.status = ConfigFailure(EntryOf(last'.slug).creator).status
        /\ last'.status # 0
        /\ failed' = Append(failed, [slug |-> last'.slug, lastStderr |-> last'.stderr,
                                     lastStdout |-> last'.stdout])
        /\ ok' = ok

\* every target is invoked in round 1 and a misconfigured one ends in the
\* failure set
C20_OthersInvoked ==
    /\ ~ConfigOk(creator) /\ pc # "off" => (posts = <<>> /\ metadata = <<>>)
    /\ sPc \in {"round", "summary", "done"} =>
        \A t \in Range(toSync) :
            /\ Invocations(t, 1) = 1
            /\ Misconfigured(t) => ~Succeeded(t)
    /\ sPc \in {"summary", "done"} =>
        \A t \in Range(toSync) : Misconfigured(t) => t \in Range(SlugsOf(failed))

\* C20: a sync on a missing creator.json or on one with no feed URL exits
\* with a non-zero status and writes no file; in a sweep it puts that target
\* alone in the failure set, and the other targets are invoked all the same.
C20_ConfigErrors == []C20_OthersInvoked /\ [][C20_RunFails /\ C20_AttemptFails]_vars

\* B names no feed: it is the one target of the manifest, A and C synced
C20_Witness ==
    /\ sPc = "done"
    /\ toSync = <<"A", "B", "C">>
    /\ Misconfigured("B")
    /\ failed = <<[slug |-> "B", lastStderr |-> "No feedUrls in creator.json",
                   lastStdout |-> ""]>>
    /\ manifest = <<"B">>
    /\ ok = 2


(***************************************************************************)
(* Further claims about the fleet sweep                                    *)
(***************************************************************************)
\* main() has returned: nothing in the script sets an exit code or calls
\* process.exit, so the process ends with status 0
SweepExitStatus == IF sPc = "done" THEN <<0>> ELSE <<>>

\* the round budget is used up and a target is still failed
Exhausted == round > retries /\ failed # <<>>

C23_Step ==
    /\ (sPc = "round" /\ Exhausted) =>
            /\ sPc' = "summary"
            /\ failed' = failed
            /\ attempts' = attempts
    /\ (sPc = "summary" /\ Exhausted) =>
            /\ sPc' = "done"
            /\ manifest' = SlugsOf(failed)
            /\ failed' = failed
            /\ attempts' = attempts
    /\ (sPc = "done" /\ Exhausted) => (attempts' = attempts /\ log' = log)

\* C23: when the round budget is used up with targets still failed, the
\* sweep still gives its summary, writes the manifest and the process ends
\* normally, with exit status 0 and with no further retry.
C23_NotFatal ==
    /\ [][C23_Step]_vars
    /\ (sPc = "round" /\ Exhausted) ~>
            (sPc = "done" /\ SweepExitStatus = <<0>> /\ manifest = SlugsOf(failed))

\* two rounds used up, the first target failed in both
C23_Witness ==
    /\ sPc = "done"
    /\ SweepExitStatus = <<0>>
    /\ retries = 2
    /\ round = 3
    /\ manifest = <<"A">>
    /\ Len(toSync) >= 2
    /\ \E i \in DOMAIN log : log[i].attemptNum = 2 /\ ~log[i].ok


(***************************************************************************)
(* update-from-template: runUpdate(targetDir, versionOverride), one action *)
(* per step                                                                *)
(***************************************************************************)
File(path, content) == (path :> content)

\* target directories: creator repos, an index repo, a directory that is
\* both, and directories that are neither
CreatorRepo ==
    File(CreatorJson, "user") @@ File(<<"posts", "a.md">>, "user")
        @@ File(<<"metadata", "a.json">>, "user") @@ File(<<"README.md">>, "old")
        @@ File(VersionFile, "1.0.0")
FreshCreatorRepo == File(CreatorJson, "user")
IndexRepo ==
    File(ReposJson, "user") @@ File(ManifestJson, "user")
        @@ File(<<"subrepos", "A", "creator.json">>, "user") @@ File(<<"README.md">>, "old")
BothRepo ==
    File(CreatorJson, "user") @@ File(ReposJson, "user") @@ File(ManifestJson, "user")
        @@ File(<<"posts", "a.md">>, "user")
NotRepo == File(<<"README.md">>, "old") @@ File(<<"posts", "a.md">>, "user")
TargetDirs == {CreatorRepo, FreshCreatorRepo, IndexRepo, BothRepo, NotRepo, EmptyDir}

\* templates/<type> of a tarball: every listed path a file, but for one
\* path at most, which is missing or is a directory
TemplateTrees(list) ==
    {[i \in DOMAIN list |-> FileEntry("new")]}
        \cup {[i \in DOMAIN list |-> IF i = k THEN e ELSE FileEntry("new")] :
                k \in DOMAIN list, e \in {NoEntry, DirEntry("new", {"extra"})}}

Tarballs ==
    {[creator |-> c, index |-> [i \in DOMAIN INDEX_TEMPLATE_FILES |-> FileEntry("new")]] :
        c \in TemplateTrees(CREATOR_TEMPLATE_FILES)}
    \cup {[creator |-> [i \in DOMAIN CREATOR_TEMPLATE_FILES |-> FileEntry("new")], index |-> x] :
        x \in TemplateTrees(INDEX_TEMPLATE_FILES)}

Overrides == {Undefined, "", "latest", "v1.3.0", "1.3.0"}

\* what fetchLatestVersion returns: the default ref on 404, or the tag
\* without its leading v
LatestVersions == {"main", StripV("v1.2.0"), StripV("1.2.0")}

InitUpdate ==
    /\ uPc = "start"
    /\ uDir \in TargetDirs
    /\ uTar \in Tarballs
    /\ uOverride \in Overrides
    /\ uType = Null
    /\ uVersion = ""
    /\ uIdx = 0
    /\ uUpdated = 0
    /\ uErr = ""
    /\ uWritten = {}
    /\ nUrl = <<>>
    /\ nBase = <<>>
    /\ nStage = "off"
    /\ nOut = <<>>
    /\ nOut2 = <<>>
    /\ nKind = "none"
    /\ ExtractOff
    /\ SyncOff
    /\ SweepOff

\* lines 241-242
UpdateDetect ==
    /\ uPc = "start"
    /\ uType' = detectRepoType(uDir)
    /\ IF detectRepoType(uDir) = Null
       THEN /\ uPc' = "failed"
            /\ uErr' = "Not an orange-tpot repo (no creator.json or creators/repos.json)"
       ELSE /\ uPc' = "version"
            /\ UNCHANGED uErr
    /\ UNCHANGED <<uDir, uTar, uOverride, uVersion, uIdx, uUpdated, uWritten,
                   normVars, extractVars, syncVars, fleetVars, sweepVars>>

\* lines 244-247
UpdateVersion ==
    /\ uPc = "version"
    /\ IF UseOverride(uOverride)
       THEN uVersion' = StripV(uOverride)
       ELSE uVersion' \in LatestVersions
    /\ uPc' = "extract"
    /\ UNCHANGED <<uDir, uTar, uOverride, uType, uIdx, uUpdated, uErr, uWritten,
                   normVars, extractVars, syncVars, fleetVars, sweepVars>>

\* fetchLatestVersion throws (lines 188-193)
UpdateVersionFail ==
    /\ uPc = "version"
    /\ ~UseOverride(uOverride)
    /\ uPc' = "failed"
    /\ uErr' = "Failed to fetch latest release"
    /\ UNCHANGED <<uDir, uTar, uOverride, uType, uVersion, uIdx, uUpdated, uWritten,
                   normVars, extractVars, syncVars, fleetVars, sweepVars>>

\* lines 249-253: the tarball is extracted under the temporary directory
UpdateExtract ==
    /\ uPc = "extract"
    /\ uPc' = "copy"
    /\ uIdx' = 1
    /\ uUpdated' = 0
    /\ UNCHANGED <<uDir, uTar, uOverride, uType, uVersion, uErr, uWritten,
                   normVars, extractVars, syncVars, fleetVars, sweepVars>>

\* fetchAndExtractTarball throws (lines 201, 210-211, 216)
UpdateExtractFail ==
    /\ uPc = "extract"
    /\ uPc' = "failed"
    /\ uErr' = "Failed to fetch tarball"
    /\ UNCHANGED <<uDir, uTar, uOverride, uType, uVersion, uIdx, uUpdated, uWritten,
                   normVars, extractVars, syncVars, fleetVars, sweepVars>>

\* lines 254-264: one path of the file list
UpdateCopy ==
    /\ uPc = "copy"
    /\ uIdx <= Len(FileList(uType))
    /\ LET rel == FileList(uType)[uIdx]
           src == uTar[uType][uIdx]
       IN  IF src.kind = "missing"
           THEN UNCHANGED <<uDir, uUpdated, uWritten>>
           ELSE /\ uDir' = copyRecursive(src, rel, uDir)
                /\ uWritten' = uWritten \cup CopyTargets(src, rel)
                /\ uUpdated' = uUpdated + 1
    /\ uIdx' = uIdx + 1
    /\ UNCHANGED <<uPc, uTar, uOverride, uType, uVersion, uErr,
                   normVars, extractVars, syncVars, fleetVars, sweepVars>>

\* copyRecursive throws: a mkdir, a read or a write rejects
UpdateCopyFail ==
    /\ uPc = "copy"
    /\ uIdx <= Len(FileList(uType))
    /\ uTar[uType][uIdx].kind # "missing"
    /\ uPc' = "failed"
    /\ uErr' = "EACCES: permission denied"
    /\ UNCHANGED <<uDir, uTar, uOverride, uType, uVersion, uIdx, uUpdated, uWritten,
                   normVars, extractVars, syncVars, fleetVars, sweepVars>>

\* lines 266-272: the version file, the temporary directory removed, return
UpdateFinish ==
    /\ uPc = "copy"
    /\ uIdx > Len(FileList(uType))
    /\ uDir' = copyRecursive(FileEntry(uVersion), VersionFile, uDir)
    /\ uWritten' = uWritten \cup {VersionFile}
    /\ uUpdated' = uUpdated + 1
    /\ uPc' = "done"
    /\ UNCHANGED <<uTar, uOverride, uType, uVersion, uIdx, uErr,
                   normVars, extractVars, syncVars, fleetVars, sweepVars>>

\* line 266 rejects
UpdateFinishFail ==
    /\ uPc = "copy"
    /\ uIdx > Len(FileList(uType))
    /\ uPc' = "failed"
    /\ uErr' = "EACCES: permission denied"
    /\ UNCHANGED <<uDir, uTar, uOverride, uType, uVersion, uIdx, uUpdated, uWritten,
                   normVars, extractVars, syncVars, fleetVars, sweepVars>>

NextUpdate ==
    \/ UpdateDetect
    \/ UpdateVersion
    \/ UpdateVersionFail
    \/ UpdateExtract
    \/ UpdateExtractFail
    \/ UpdateCopy
    \/ UpdateCopyFail
    \/ UpdateFinish
    \/ UpdateFinishFail

SpecUpdate == InitUpdate /\ [][NextUpdate]_vars

(***************************************************************************)
(* Claims about update-from-template                                       *)
(***************************************************************************)
IsPrefix(a, b) == Len(a) <= Len(b) /\ SubSeq(b, 1, Len(a)) = a

\* the files the owner of a creator repo, or of an index repo, keeps
CreatorOwned(p) == p = CreatorJson \/ p[1] \in {"posts", "metadata"}
IndexOwned(p) == p \in {ReposJson, ManifestJson} \/ p[1] = "subrepos"

\* a path of the template-owned list of the type, or a file of a directory
\* the list names
TemplateOwned(type, p) ==
    \E i \in DOMAIN FileList(type) : IsPrefix(FileList(type)[i], p)

IsCreatorRepo(dir) == CreatorJson \in DOMAIN dir
IsIndexRepo(dir) == ReposJson \in DOMAIN dir

C24_Written ==
    /\ IsCreatorRepo(uDir) =>
            \A p \in uWritten : TemplateOwned("creator", p) \/ p = VersionFile
    /\ (IsIndexRepo(uDir) /\ ~IsCreatorRepo(uDir)) =>
            \A p \in uWritten : TemplateOwned("index", p) \/ p = VersionFile
    /\ \A p \in uWritten : ~CreatorOwned(p) /\ ~IndexOwned(p)
    /\ (~IsCreatorRepo(uDir) /\ ~IsIndexRepo(uDir)) =>
            /\ uWritten = {}
            /\ uPc \in {"start", "failed"}
            /\ uPc = "failed" => uErr # ""

C24_Step ==
    /\ DOMAIN uDir \subseteq DOMAIN uDir'
    /\ \A p \in DOMAIN uDir' :
            (CreatorOwned(p) \/ IndexOwned(p)) => (p \in DOMAIN uDir /\ uDir'[p] = uDir[p])
    /\ \A p \in DOMAIN uDir' :
            (p \notin DOMAIN uDir \/ uDir'[p] # uDir[p]) => p \in uWritten'
    /\ (~IsCreatorRepo(uDir) /\ ~IsIndexRepo(uDir)) => uDir' = uDir

\* C24: for a creator repo runUpdate writes only template-owned paths and
\* .orange-tpot-version, and leaves creator.json and everything under posts/
\* and metadata/ as it was; for an index repo it leaves creators/repos.json,
\* creators/manifest.json and subrepos/ as they were; in a directory that is
\* neither it fails without writing anything.
C24_UserFilesKept == []C24_Written /\ [][C24_Step]_vars

\* a creator repo updated to the latest release: the README replaced, the
\* version written, the owner's files as before
C24_Witness ==
    /\ uPc = "done"
    /\ uType = "creator"
    /\ DOMAIN CreatorRepo \subseteq DOMAIN uDir
    /\ uDir[CreatorJson] = "user"
    /\ uDir[<<"posts", "a.md">>] = "user"
    /\ uDir[<<"metadata", "a.json">>] = "user"
    /\ uDir[<<"README.md">>] = "new"
    /\ uDir[VersionFile] = "1.2.0"
    /\ <<"scripts", "sync-posts.ts">> \in uWritten
    /\ uUpdated = 10

\* where a target stands in the sweep
TargetState(t, run, lg) ==
    IF t \in run THEN "running"
    ELSE IF \E i \in DOMAIN lg : lg[i].slug = t /\ lg[i].ok THEN "succeeded"
    ELSE IF \E i \in DOMAIN lg : lg[i].slug = t THEN "failed"
    ELSE "pending"

\* the attempts on a target the sweep has reported
AttemptsOn(t, lg) == Cardinality({i \in DOMAIN lg : lg[i].slug = t})

\* the round of the latest attempt on a target, 0 when there is none
LastRound(t) ==
    LET rs == {log[i].attemptNum : i \in {j \in DOMAIN log : log[j].slug = t}}
    IN  IF rs = {} THEN 0 ELSE CHOOSE r \in rs : \A q \in rs : q <= r

C25_Step ==
    \A t \in Range(toSync) :
        LET from == TargetState(t, running, log)
            to == TargetState(t, running', log')
        IN  /\ from # to =>
                \/ from = "pending" /\ to = "running"
                \/ from = "running" /\ to \in {"succeeded", "failed"}
                \/ /\ from = "failed" /\ to = "running"
                   /\ round > LastRound(t)
                   /\ round <= retries
            /\ (t \notin running /\ t \in running') =>
                /\ ~Succeeded(t)
                /\ round > 1 => FailedIn(t, round - 1)
                /\ Invocations(t, round) = 0
            /\ Succeeded(t) => (t \notin running' /\ AttemptsOn(t, log') = AttemptsOn(t, log))

\* C25: within a sweep a target moves only pending -> running -> succeeded
\* or failed, and failed -> running only in a later round while rounds
\* remain; it is invoked in round k > 1 only if its attempt of round k - 1
\* failed, and never again once it has succeeded.
C25_StateMachine == [][C25_Step]_vars

\* A failed in round 1 and is running in round 2; B succeeded in round 1
C25_Witness ==
    /\ toSync = <<"A", "B">>
    /\ round = 2
    /\ TargetState("A", running, log) = "running"
    /\ FailedIn("A", 1)
    /\ TargetState("B", running, log) = "succeeded"
    /\ Invocations("B", 1) = 1

\* C28: with a delay greater than 0 a sleep lies between every two
\* consecutive invocations of a sweep, within a round and from the last
\* invocation of a round to the first of the next: when an invocation
\* starts, every invocation before it has been followed by its sleep; with
\* delay 0 the sweep never sleeps.
C28_Pacing ==
    sPc \notin {"start", "off"} =>
        /\ delaySec > 0 =>
            /\ sPc \in {"attempt", "running"} => slept = Len(log)
            /\ sPc = "sleep" => slept = Len(log) - 1
            /\ slept <= Len(log)
        /\ delaySec = 0 => (slept = 0 /\ sPc # "sleep")

\* the first invocation of round 2 starts: both invocations of round 1 were
\* followed by a sleep
C28_Witness ==
    /\ delaySec > 0
    /\ round = 2
    /\ sPc = "running"
    /\ Len(toSync) = 2
    /\ Len(log) = 2
    /\ slept = 2
    /\ log[2].attemptNum = 1

\* the attempts on a target that returned status 0
SuccessesOf(t) == Cardinality({i \in DOMAIN log : log[i].slug = t /\ log[i].ok})

\* C29: at the end of every sweep the succeeded count plus the size of the
\* failure set is the number of discovered targets; no target is counted as
\* succeeded more than once, and none is both counted as succeeded and in
\* the failure set.
C29_Accounting ==
    sPc \in {"summary", "done"} =>
        /\ ok + Len(failed) = Len(toSync)
        /\ \A t \in Range(toSync) : SuccessesOf(t) <= 1
        /\ ok = Sum([i \in DOMAIN toSync |-> SuccessesOf(toSync[i])])
        /\ \A t \in Range(toSync) : ~(SuccessesOf(t) > 0 /\ RecordsFor(failed, t) # {})

\* three targets in two rounds: one synced at once, one on retry, one never
C29_Witness ==
    /\ sPc = "done"
    /\ Len(toSync) = 3
    /\ ok = 2
    /\ Len(failed) = 1
    /\ \E i \in DOMAIN log : log[i].attemptNum = 2 /\ log[i].ok
    /\ \E i \in DOMAIN log : log[i].attemptNum = 1 /\ log[i].ok


(***************************************************************************)
(* The fleet when hosts are down: the owner sync on feeds that cannot be   *)
(* reached, or the sweep over targets whose hosts cannot be reached        *)
(***************************************************************************)
OutageListings ==
    UNION {{[i \in 1..n |-> Entry(Slugs[i], kinds[i])] :
                kinds \in [1..n -> {"creator", "down"}]} : n \in 1..MaxTargets}

InitSweepOutage ==
    /\ NormIdle
    /\ SyncOff
    /\ argv \in ArgvPool
    /\ entries \in OutageListings
    /\ manifest = NoFile
    /\ sPc = "start"
    /\ delaySec = 0
    /\ retries = 0
    /\ toSync = <<>>
    /\ round = 0
    /\ queue = <<>>
    /\ failed = <<>>
    /\ ok = 0
    /\ attempts = <<>>
    /\ running = {}
    /\ last = NoResult
    /\ log = <<>>
    /\ sweeps = 1
    /\ slept = 0

SpecOutage == (InitOutage \/ InitSweepOutage) /\ [][NextOutage \/ NextSweep]_vars

\* no fetch of the run has succeeded so far
NothingFetched == fetched = {} /\ postUrls = <<>>

C30_Step ==
    /\ (pc \notin {"idle", "off"} /\ NothingFetched /\ NothingFetched') =>
            /\ posts' = posts
            /\ metadata' = metadata
            /\ pc' \notin {"item", "writeMd", "writeMeta", "aitem", "writeStubMd", "writeStubMeta"}
    /\ (pc = "done" /\ NothingFetched /\ pc' # "done") =>
            /\ pc' = "idle"
            /\ exitStatus' = <<0>>
            /\ writtenRss = 0
            /\ writtenArchive = 0

C30_Recorded ==
    \A t \in Range(toSync) :
        EntryOf(t).sourcesDown =>
            /\ \A i \in DOMAIN log : log[i].slug = t => log[i].ok
            /\ AttemptsOn(t, log) <= 1
            /\ RecordsFor(failed, t) = {}
            /\ t \notin ManifestListed
            /\ sPc \in {"summary", "done"} => Succeeded(t)
            /\ last.slug = t => last.status = 0

\* C30: a sync run in which every feed fetch fails and the archive fetch
\* fails writes no file and exits with status 0, so the sweep records the
\* target as succeeded, never retries it and never lists it in the manifest.
C30_OutageIsSuccess == []C30_Recorded /\ [][C30_Step]_vars

\* both feed hosts down and the fetch of an archive page that links a post
\* failed: the run is at its end with nothing written
C30_Witness ==
    /\ pc = "done"
    /\ runs = 1
    /\ \A f \in DOMAIN feeds : feeds[f] = DownFeed
    /\ Supplements
    /\ archiveHtml = << <<"/", "p", "/", "a">> >>
    /\ postUrls = <<>>
    /\ faults = 1
    /\ fetched = {}
    /\ posts = <<>>
    /\ metadata = <<>>

====
